---------------------------- MODULE Spec2Model ----------------------------
(***************************************************************************)
(* Model of the multi-provider text-generation gateway of OpenCLAW         *)
(* (src/unified_llm.py): the per-credential health record ProviderState,   *)
(* the loader UnifiedLLM._load_all_keys, the candidate selection           *)
(* UnifiedLLM._get_available_keys, the failover loop UnifiedLLM.generate   *)
(* and the snapshot UnifiedLLM.status; and of the older cascading client   *)
(* LLMProvider (src/core/llm_provider.py).                                 *)
(*                                                                         *)
(* Time is the wall clock time.time() in whole seconds.  A credential is   *)
(* identified by its position in self.keys.  The text a backend answers    *)
(* with is identified by the credential that obtained it.                  *)
(***************************************************************************)
EXTENDS Integers, Sequences, FiniteSets, TLC

(***************************************************************************)
(* Bounds of the model.                                                    *)
(***************************************************************************)
MaxCalls == 2         \* generate() invocations started in one behaviour
MaxTicks == 1         \* clock advances during the generate() runs
MaxRecordTicks == 3   \* clock advances in the record-level runs
MaxFailures == 6      \* cap of the failure counter in the record-level runs

Callers == {1, 2}                  \* threads that may run generate() at once
Deltas == {30, 3600}               \* clock advances during the generate() runs
RecordDeltas == {30, 300, 3600}    \* clock advances in the record-level runs

\* the pools: the provider of each credential, in the order of self.keys
\* (the order random.shuffle left them in); the empty pool is what
\* _load_all_keys leaves when no variable holds a secret
Pools == {<<>>, <<"groq", "groq">>, <<"gemini", "groq">>}

(***************************************************************************)
(* Program constants.                                                      *)
(***************************************************************************)
AuthCooldown == 3600       \* mark_failure, 401/403
BackoffBase == 30          \* mark_failure, 429
BackoffCeiling == 600      \* mark_failure, 429
FailureThreshold == 3      \* mark_failure, generic
GenericCooldown == 300     \* mark_failure, generic
UnlistedRank == 99         \* sort_key, provider not in preferred_providers

\* list(PROVIDERS.keys()): the default preference order
PROVIDERS == <<"groq", "nvidia", "openrouter", "mistral", "deepseek",
               "zhipuai", "gemini">>


VARIABLES
    keys,                 \* self.keys: the list of ProviderState
    preferred_providers,  \* self.preferred_providers
    now,                  \* time.time()
    ticks,                \* clock advances so far
    pc,                   \* per caller: "idle", "try", "call", "done"
    avail,                \* per caller: the local list `available` of generate
    idx,                  \* per caller: position of the loop in `available`
    ret,                  \* per caller: the value generate returned
    attempts,             \* per caller: the attempts made, <<key, outcome>>
    started,              \* per caller: was the key cooling when the call in
                          \* flight began (history)
    calls,                \* generate() invocations started so far
    last                  \* per key: the last mark_success / mark_failure
                          \* (history, kept in the record-level runs)

\* the credential loaders (UnifiedLLM._load_all_keys, LLMProvider.__init__)
VARIABLES
    environ,              \* os.environ: variable name -> value
    constructed,          \* the objects constructed so far
    loaded,               \* self.keys as _load_all_keys leaves it:
                          \* (provider, key, index) of every ProviderState
    providers             \* LLMProvider.providers: list of (name, keys)

\* LLMProvider.generate
VARIABLES
    ppc,                  \* "idle", "loop", "call", "done"
    pi,                   \* position of the outer loop in self.providers
    shuffled,             \* the local list `shuffled` of the outer loop
    ki,                   \* position of the inner loop in `shuffled`
    tried,                \* the _call invocations made, <<name, key, outcome>>
    presult               \* the value generate returned

\* two threads in the methods of one ProviderState, statement by statement
VARIABLES
    rop,                  \* per thread: the method it runs, <<name, error_code>>
    rpc,                  \* per thread: the statement it is at
    reg,                  \* per thread: the value it has read and not yet
                          \* written back
    rinit                 \* the record before the methods began (history)

\* StateManager (src/core/state_manager.py): the files of the state
\* directory and the threads inside its methods
VARIABLES
    files,                \* the content of the files of self.files
    mop,                  \* per thread: the method it runs, with its arguments
    mpc,                  \* per thread: the statement it is at
    mloc,                 \* per thread: the locals `state` and `history`
    mret,                 \* per thread: the last get_post_history call, its
                          \* n and the list it returned
    performed             \* the calls made and completed so far (history)

\* AutonomousLoop (src/core/autonomous_loop.py): one engagement cycle
VARIABLES
    feed,                 \* what the platform and the state directory hold
                          \* when the cycle begins
    lpc,                  \* the statement the cycle is at
    li,                   \* the position of the running for loop
    engaged_ids,          \* the local engaged_ids
    engaged_count,        \* the local engaged_count
    engagement_log,       \* the target_id of the entries of
                          \* engagement_log.json
    commented             \* the comment_on_post calls of the cycle (history)

\* sequential generate calls, each one answered by its first candidate
VARIABLES
    served                \* the credential that answered each call, in the
                          \* order of the calls (history)

\* HiveMind (src/hivemind.py): the shared gist and one instance per agent
VARIABLES
    gist,                 \* the state held in the file of the shared gist
    hcache,               \* per agent: self._cache and self._cache_time
    hpc,                  \* per agent: the statement its instance is at
    hloc,                 \* per agent: the method it runs and its local state
    published             \* the messages whose publish returned True, in
                          \* the order of the returns (history)

gatewayVars == <<keys, preferred_providers, now, ticks, pc, avail, idx, ret,
                 attempts, started, calls, last>>

loaderVars == <<environ, constructed, loaded, providers>>

providerVars == <<ppc, pi, shuffled, ki, tried, presult>>

raceVars == <<rop, rpc, reg, rinit>>

stateVars == <<files, mop, mpc, mloc, mret, performed>>

loopVars == <<feed, lpc, li, engaged_ids, engaged_count, engagement_log,
              commented>>

hiveVars == <<gist, hcache, hpc, hloc, published>>

agentVars == <<loopVars, served, hiveVars>>

\* the variables the gateway does not touch
outsideGateway == <<loaderVars, providerVars, raceVars, stateVars, agentVars>>

vars == <<gatewayVars, outsideGateway>>

callVars == <<pc, avail, idx, ret, attempts, started, calls>>

Min(a, b) == IF a <= b THEN a ELSE b

(***************************************************************************)
(* ProviderState                                                           *)
(***************************************************************************)
\* ProviderState.__init__
NewState(provider) ==
    [provider |-> provider, failures |-> 0, last_used |-> 0,
     disabled |-> FALSE, disable_until |-> 0]

\* mutant of available: the record is still held back at disable_until
available_strict(r, t) == ~(r.disabled /\ t <= r.disable_until)

\* mutant of available: the comparison with disable_until inverted
available_inverted(r, t) == ~(r.disabled /\ t >= r.disable_until)

\* ProviderState.available: the value the property returns at time t
available(r, t) == ~(r.disabled /\ t < r.disable_until)

\* mutant of available_effect: the reset does not wait for disable_until
available_effect_eager(r, t) ==
    IF r.disabled
    THEN [r EXCEPT !.disabled = FALSE, !.failures = 0]
    ELSE r

\* mutant of available_effect: the reset clears disable_until too
available_effect_clear(r, t) ==
    IF r.disabled /\ t >= r.disable_until
    THEN [r EXCEPT !.disabled = FALSE, !.failures = 0, !.disable_until = 0]
    ELSE r

\* ProviderState.available: the record after the property was read at time t
available_effect(r, t) ==
    IF r.disabled /\ t >= r.disable_until
    THEN [r EXCEPT !.disabled = FALSE, !.failures = 0]
    ELSE r

\* mutant of mark_success: the counter is left as it was
mark_success_keep(r, t) == [r EXCEPT !.last_used = t]

\* ProviderState.mark_success
mark_success(r, t) == [r EXCEPT !.failures = 0, !.last_used = t]

\* mutant of backoff: the exponent starts again at every fourth failure
backoff_cyclic(f) == Min(BackoffCeiling, BackoffBase * (2 ^ (f % 4)))

\* mutant of backoff: the ceiling is not applied
backoff_uncapped(f) == BackoffBase * (2 ^ f)

\* mutant of backoff: the backoff does not grow with the counter
backoff_flat(f) == Min(BackoffCeiling, BackoffBase * 2)

\* the backoff of the 429 branch, from the counter value it reads
backoff(f) == Min(BackoffCeiling, BackoffBase * (2 ^ f))

\* mutant of mark_failure: the auth cooldown grows with the counter
mark_failure_auth_scaled(r, error_code, t) ==
    LET f == r.failures + 1
        r1 == [r EXCEPT !.failures = f, !.last_used = t]
    IN  IF error_code = 401 \/ error_code = 403
        THEN [r1 EXCEPT !.disabled = TRUE,
                        !.disable_until = t + Min(AuthCooldown, GenericCooldown * f)]
        ELSE IF error_code = 429
        THEN [r1 EXCEPT !.disable_until = t + Min(BackoffCeiling, BackoffBase * (2 ^ f)),
                        !.disabled = TRUE]
        ELSE IF f >= FailureThreshold
        THEN [r1 EXCEPT !.disabled = TRUE, !.disable_until = t + GenericCooldown]
        ELSE r1

\* mutant of mark_failure: the generic cooldown starts one failure early
mark_failure_early(r, error_code, t) ==
    LET f == r.failures + 1
        r1 == [r EXCEPT !.failures = f, !.last_used = t]
    IN  IF error_code = 401 \/ error_code = 403
        THEN [r1 EXCEPT !.disabled = TRUE, !.disable_until = t + AuthCooldown]
        ELSE IF error_code = 429
        THEN [r1 EXCEPT !.disable_until = t + Min(BackoffCeiling, BackoffBase * (2 ^ f)),
                        !.disabled = TRUE]
        ELSE IF f >= FailureThreshold - 1
        THEN [r1 EXCEPT !.disabled = TRUE, !.disable_until = t + GenericCooldown]
        ELSE r1

\* mutant of mark_failure: the generic cooldown starts one failure late
mark_failure_late(r, error_code, t) ==
    LET f == r.failures + 1
        r1 == [r EXCEPT !.failures = f, !.last_used = t]
    IN  IF error_code = 401 \/ error_code = 403
        THEN [r1 EXCEPT !.disabled = TRUE, !.disable_until = t + AuthCooldown]
        ELSE IF error_code = 429
        THEN [r1 EXCEPT !.disable_until = t + Min(BackoffCeiling, BackoffBase * (2 ^ f)),
                        !.disabled = TRUE]
        ELSE IF f > FailureThreshold
        THEN [r1 EXCEPT !.disabled = TRUE, !.disable_until = t + GenericCooldown]
        ELSE r1

\* ProviderState.mark_failure(error_code)
mark_failure(r, error_code, t) ==
    LET f == r.failures + 1
        r1 == [r EXCEPT !.failures = f, !.last_used = t]
    IN  IF error_code = 401 \/ error_code = 403
        THEN [r1 EXCEPT !.disabled = TRUE, !.disable_until = t + AuthCooldown]
        ELSE IF error_code = 429
        THEN [r1 EXCEPT !.disable_until = t + backoff(f), !.disabled = TRUE]
        ELSE IF f >= FailureThreshold
        THEN [r1 EXCEPT !.disabled = TRUE, !.disable_until = t + GenericCooldown]
        ELSE r1

(***************************************************************************)
(* UnifiedLLM._get_available_keys                                          *)
(***************************************************************************)
\* list.index: the 0-based position of the first occurrence of x in s
index(s, x) ==
    (CHOOSE i \in 1..Len(s) : s[i] = x /\ \A j \in 1..(i - 1) : s[j] # x) - 1

\* sort_key's pref_idx
pref_idx(pref, provider) ==
    IF \E i \in 1..Len(pref) : pref[i] = provider
    THEN index(pref, provider)
    ELSE UnlistedRank

\* mutant of sort_key: last_used is compared before the failure counter
sort_key_lru_first(pref, r) ==
    <<pref_idx(pref, r.provider), r.last_used, r.failures>>

\* mutant of sort_key: last_used is left out of the tuple
sort_key_no_lru(pref, r) == <<pref_idx(pref, r.provider), r.failures, 0>>

\* sort_key: the tuple the candidates are ordered by
sort_key(pref, r) == <<pref_idx(pref, r.provider), r.failures, r.last_used>>

\* Python's order on tuples of three numbers: a < b
tuple_less(a, b) ==
    \/ a[1] < b[1]
    \/ a[1] = b[1] /\ a[2] < b[2]
    \/ a[1] = b[1] /\ a[2] = b[2] /\ a[3] < b[3]

\* the list comprehension: the records as the reads of .available leave them
refreshed(ks, t) == [k \in DOMAIN ks |-> available_effect(ks[k], t)]

\* mutant of comprehension: a record whose .available is true is listed twice
RECURSIVE comprehension_repeat(_, _, _)
comprehension_repeat(ks, t, k) ==
    IF k > Len(ks) THEN <<>>
    ELSE (IF available(ks[k], t) THEN <<k, k>> ELSE <<>>)
         \o comprehension_repeat(ks, t, k + 1)

\* the list comprehension: the positions in self.keys, in order, of the
\* records whose .available is true
RECURSIVE comprehension(_, _, _)
comprehension(ks, t, k) ==
    IF k > Len(ks) THEN <<>>
    ELSE (IF available(ks[k], t) THEN <<k>> ELSE <<>>)
         \o comprehension(ks, t, k + 1)

\* sorted() is stable: x goes after every element that is not greater
RECURSIVE insert(_, _, _, _)
insert(s, x, ks, pref) ==
    IF s = <<>> THEN <<x>>
    ELSE IF tuple_less(sort_key(pref, ks[x]), sort_key(pref, ks[Head(s)]))
         THEN <<x>> \o s
         ELSE <<Head(s)>> \o insert(Tail(s), x, ks, pref)

RECURSIVE sorted(_, _, _)
sorted(s, ks, pref) ==
    IF s = <<>> THEN <<>>
    ELSE insert(sorted(SubSeq(s, 1, Len(s) - 1), ks, pref), s[Len(s)], ks, pref)

\* the list _get_available_keys returns at time t
get_available_keys(ks, pref, t) ==
    sorted(comprehension(ks, t, 1), refreshed(ks, t), pref)

(***************************************************************************)
(* Outcomes of one adapter call (_call_openai_compatible, _call_gemini,    *)
(* _call_zhipuai) as generate sees them.                                   *)
(***************************************************************************)
Text == [kind |-> "text", code |-> 200]       \* a non-empty string
Empty == [kind |-> "empty", code |-> 200]     \* a falsy result, no exception
Http(c) == [kind |-> "http", code |-> c]      \* urllib.error.HTTPError
Error == [kind |-> "error", code |-> 0]       \* any other Exception

HttpCodes == {401, 429}
Outcomes == {Text, Empty, Error} \cup {Http(c) : c \in HttpCodes}

\* the error_code mark_failure is called with for a failed outcome
error_code(o) == IF o.kind = "http" THEN o.code ELSE 0

\* the values generate returns
None == <<"None">>
TextOf(k) == <<"text", k>>

\* line 338: the value returned when the candidate list is empty
NoCredentialsAvailable == None

\* line 371: the value returned when every candidate was tried and failed
ExhaustedPool == None

(***************************************************************************)
(* The record of the last mark_success / mark_failure on a credential      *)
(* (history, not program state).                                           *)
(***************************************************************************)
NoMark == [op |-> "none", code |-> 0, prev |-> 0, at |-> 0, streak |-> 0,
           dur |-> 0, pdur |-> 0]

OnSuccess(r, t) ==
    [op |-> "success", code |-> 0, prev |-> r.failures, at |-> t,
     streak |-> 0, dur |-> 0, pdur |-> 0]

\* prev: the counter before the call; streak: how many generic failures in a
\* row this one completes, counted from a counter of 0; dur: the cooldown
\* this failure imposed; pdur: the cooldown the mark before this one imposed,
\* when that was a rate-limit failure too (else 0)
OnFailure(l, r, code, t) ==
    LET generic == code \notin {401, 403, 429}
        r2 == mark_failure(r, code, t)
    IN  [op |-> "failure", code |-> code, prev |-> r.failures, at |-> t,
         streak |-> IF ~generic THEN 0
                    ELSE IF r.failures = 0 THEN 1
                    ELSE IF l.op = "failure" /\ l.streak > 0 THEN l.streak + 1
                    ELSE 0,
         dur |-> IF generic /\ r2.failures < FailureThreshold THEN 0
                 ELSE r2.disable_until - t,
         pdur |-> IF l.op = "failure" /\ l.code = 429 THEN l.dur ELSE 0]


\* mutant of handle: a rejected attempt is logged but not recorded
handle_unmarked(r, o, t) ==
    IF o.kind = "text" THEN mark_success(r, t) ELSE r

\* lines 355-368 of generate: the record of the attempted credential after
\* the outcome o of its adapter call was handled at time t
handle(r, o, t) ==
    IF o.kind = "text" THEN mark_success(r, t)
    ELSE IF o.kind = "empty" THEN r
    ELSE mark_failure(r, error_code(o), t)

\* mutant of record_attempt: a success is credited to every credential of
\* the provider that answered
record_attempt_provider(ks, k, o, t) ==
    [j \in DOMAIN ks |->
        IF j = k THEN handle(ks[j], o, t)
        ELSE IF o.kind = "text" /\ ks[j].provider = ks[k].provider
        THEN mark_success(ks[j], t)
        ELSE ks[j]]

\* lines 355-368 of generate: self.keys after the outcome o of the adapter
\* call with credential k was handled; key_state is the only record touched
record_attempt(ks, k, o, t) == [ks EXCEPT ![k] = handle(ks[k], o, t)]

\* no loader has run
LoaderIdle ==
    /\ environ = <<>>
    /\ constructed = {}
    /\ loaded = <<>>
    /\ providers = <<>>

\* no LLMProvider.generate call has begun
ProviderIdle ==
    /\ ppc = "idle"
    /\ pi = 0
    /\ shuffled = <<>>
    /\ ki = 0
    /\ tried = <<>>
    /\ presult = [text |-> "", pad |-> FALSE]

\* no thread is inside a method of a record
RaceIdle ==
    /\ rop = <<>>
    /\ rpc = <<>>
    /\ reg = <<>>
    /\ rinit = <<>>

\* no StateManager has been constructed
StateIdle ==
    /\ files = <<>>
    /\ mop = <<>>
    /\ mpc = <<>>
    /\ mloc = <<>>
    /\ mret = <<>>
    /\ performed = <<>>

\* no engagement cycle has been set up
LoopIdle ==
    /\ feed = <<>>
    /\ lpc = "idle"
    /\ li = 0
    /\ engaged_ids = {}
    /\ engaged_count = 0
    /\ engagement_log = <<>>
    /\ commented = <<>>

\* no HiveMind has been constructed
HiveIdle ==
    /\ gist = <<>>
    /\ hcache = <<>>
    /\ hpc = <<>>
    /\ hloc = <<>>
    /\ published = <<>>

AgentIdle == LoopIdle /\ served = <<>> /\ HiveIdle

\* the part of the state the gateway runs leave alone
OutsideIdle ==
    LoaderIdle /\ ProviderIdle /\ RaceIdle /\ StateIdle /\ AgentIdle

(***************************************************************************)
(* Initial state: UnifiedLLM.__init__ with the default preference list     *)
(***************************************************************************)
GatewayInit(pool) ==
    /\ keys = [k \in DOMAIN pool |-> NewState(pool[k])]
    /\ preferred_providers = PROVIDERS
    /\ now = 1
    /\ ticks = 0
    /\ pc = [c \in Callers |-> "idle"]
    /\ avail = [c \in Callers |-> <<>>]
    /\ idx = [c \in Callers |-> 0]
    /\ ret = [c \in Callers |-> None]
    /\ attempts = [c \in Callers |-> <<>>]
    /\ started = [c \in Callers |-> FALSE]
    /\ calls = 0
    /\ last = [k \in DOMAIN pool |-> NoMark]

InitPool(pool) == GatewayInit(pool) /\ OutsideIdle

Init == \E pool \in Pools : InitPool(pool)

\* the clock advances while generate() calls run or between them
Tick(d) ==
    /\ ticks < MaxTicks
    /\ now' = now + d
    /\ ticks' = ticks + 1
    /\ UNCHANGED <<keys, preferred_providers, callVars, last,
                   outsideGateway>>

(***************************************************************************)
(* UnifiedLLM.generate, run by thread c                                    *)
(***************************************************************************)
\* lines 334-338: thread c enters generate (a thread that has returned may
\* call again); the candidate list is computed, None is returned when it is
\* empty.  Threads are interchangeable: a call is started by the first free
\* thread.
Begin(c) ==
    /\ pc[c] \in {"idle", "done"}
    /\ \A b \in Callers : b < c => pc[b] \in {"try", "call"}
    /\ calls < MaxCalls
    /\ calls' = calls + 1
    /\ keys' = refreshed(keys, now)
    /\ LET a == get_available_keys(keys, preferred_providers, now)
       IN  /\ avail' = [avail EXCEPT ![c] = a]
           /\ IF a = <<>>
              THEN /\ pc' = [pc EXCEPT ![c] = "done"]
                   /\ idx' = [idx EXCEPT ![c] = 0]
                   /\ ret' = [ret EXCEPT ![c] = NoCredentialsAvailable]
              ELSE /\ pc' = [pc EXCEPT ![c] = "try"]
                   /\ idx' = [idx EXCEPT ![c] = 1]
                   /\ ret' = [ret EXCEPT ![c] = None]
    /\ attempts' = [attempts EXCEPT ![c] = <<>>]
    /\ started' = [started EXCEPT ![c] = FALSE]
    /\ UNCHANGED <<preferred_providers, now, ticks, last,
                   outsideGateway>>

\* lines 340-353: the adapter call for the candidate at idx begins
StartCall(c) ==
    /\ pc[c] = "try"
    /\ pc' = [pc EXCEPT ![c] = "call"]
    /\ LET r == keys[avail[c][idx[c]]]
       IN  started' = [started EXCEPT ![c] = r.disabled /\ now < r.disable_until]
    /\ UNCHANGED <<keys, preferred_providers, now, ticks, avail, idx, ret,
                   attempts, calls, last,
                   outsideGateway>>

\* lines 355-371: the adapter call ends with outcome o: text is returned at
\* once; otherwise the loop goes on to the next candidate, and None is
\* returned after the last one
Finish(c, o) ==
    /\ pc[c] = "call"
    /\ LET k == avail[c][idx[c]]
       IN  /\ attempts' = [attempts EXCEPT ![c] = Append(attempts[c], <<k, o>>)]
           /\ keys' = record_attempt(keys, k, o, now)
           /\ IF o.kind = "text"
              THEN /\ ret' = [ret EXCEPT ![c] = TextOf(k)]
                   /\ pc' = [pc EXCEPT ![c] = "done"]
                   /\ idx' = idx
              ELSE IF idx[c] < Len(avail[c])
              THEN /\ idx' = [idx EXCEPT ![c] = idx[c] + 1]
                   /\ pc' = [pc EXCEPT ![c] = "try"]
                   /\ ret' = ret
              ELSE /\ idx' = idx
                   /\ pc' = [pc EXCEPT ![c] = "done"]
                   /\ ret' = [ret EXCEPT ![c] = ExhaustedPool]
    /\ started' = [started EXCEPT ![c] = FALSE]
    /\ UNCHANGED <<preferred_providers, now, ticks, avail, calls, last,
                   outsideGateway>>

\* mutant of status_effect: a record counted as available is stamped as used
status_effect_touch(ks, t) ==
    [k \in DOMAIN ks |->
        IF available(ks[k], t)
        THEN [available_effect(ks[k], t) EXCEPT !.last_used = t]
        ELSE ks[k]]

\* lines 377-384 of status: the records after the loop has read .available
\* of each of them at time t
status_effect(ks, t) == [k \in DOMAIN ks |-> available_effect(ks[k], t)]

\* mutant of status_counts: `disabled` counts the records whose flag is set
status_counts_flag(ks, t, provider) ==
    LET mine == {k \in DOMAIN ks : ks[k].provider = provider}
    IN  [total |-> Cardinality(mine),
         available |-> Cardinality({k \in mine : available(ks[k], t)}),
         disabled |-> Cardinality({k \in mine : ks[k].disabled})]

\* the counts of one provider in the dict status returns at time t
status_counts(ks, t, provider) ==
    LET mine == {k \in DOMAIN ks : ks[k].provider = provider}
        up == {k \in mine : available(ks[k], t)}
    IN  [total |-> Cardinality(mine), available |-> Cardinality(up),
         disabled |-> Cardinality(mine \ up)]

\* UnifiedLLM.status, read by any thread at any time
Status ==
    /\ keys' = status_effect(keys, now)
    /\ UNCHANGED <<preferred_providers, now, ticks, callVars, last,
                   outsideGateway>>

Next ==
    \/ \E d \in Deltas : Tick(d)
    \/ \E c \in Callers : Begin(c)
    \/ \E c \in Callers : StartCall(c)
    \/ \E c \in Callers, o \in Outcomes : Finish(c, o)

Spec == Init /\ [][Next]_vars

\* one thread calling generate, and status read at any time, also while a
\* call is running
NextStatus ==
    \/ Status
    \/ \E d \in Deltas : Tick(d)
    \/ Begin(1)
    \/ StartCall(1)
    \/ \E o \in Outcomes : Finish(1, o)

SpecStatus == Init /\ [][NextStatus]_vars

(***************************************************************************)
(* The record-level runs: the methods of one ProviderState called in any   *)
(* order, as overlapping generate() calls and status reads call them.      *)
(***************************************************************************)
ErrorCodes == {0, 401, 403, 429, 500}

InitRecord == InitPool(<<"groq">>)

RecordTick(d) ==
    /\ ticks < MaxRecordTicks
    /\ now' = now + d
    /\ ticks' = ticks + 1
    /\ UNCHANGED <<keys, preferred_providers, callVars, last,
                   outsideGateway>>

\* a read of the property .available (by _get_available_keys or status)
ReadAvailable(k) ==
    /\ keys' = [keys EXCEPT ![k] = available_effect(keys[k], now)]
    /\ keys' # keys
    /\ UNCHANGED <<preferred_providers, now, ticks, callVars, last,
                   outsideGateway>>

MarkSuccess(k) ==
    /\ keys' = [keys EXCEPT ![k] = mark_success(keys[k], now)]
    /\ last' = [last EXCEPT ![k] = OnSuccess(keys[k], now)]
    /\ UNCHANGED <<preferred_providers, now, ticks, callVars,
                   outsideGateway>>

MarkFailure(k, code) ==
    /\ keys[k].failures < MaxFailures
    /\ keys' = [keys EXCEPT ![k] = mark_failure(keys[k], code, now)]
    /\ last' = [last EXCEPT ![k] = OnFailure(last[k], keys[k], code, now)]
    /\ UNCHANGED <<preferred_providers, now, ticks, callVars,
                   outsideGateway>>

NextRecord ==
    \/ \E d \in RecordDeltas : RecordTick(d)
    \/ \E k \in DOMAIN keys : ReadAvailable(k)
    \/ \E k \in DOMAIN keys : MarkSuccess(k)
    \/ \E k \in DOMAIN keys, code \in ErrorCodes : MarkFailure(k, code)

SpecRecord == InitRecord /\ [][NextRecord]_vars

(***************************************************************************)
(* Claims about generate and the selection                                 *)
(***************************************************************************)
\* the candidate list _get_available_keys would return in this state
Selection == get_available_keys(keys, preferred_providers, now)

\* the last entry of a non-empty list
Last(s) == s[Len(s)]

\* C1, result: a call that has returned tried its candidates in selection
\* order, stopped at the first one that answered with text and returned
\* that text; it returned None only after every candidate was tried and none
\* answered with text
C1_Result ==
    \A c \in Callers : pc[c] = "done" =>
        LET a == attempts[c]
            L == avail[c]
        IN  /\ Len(a) <= Len(L)
            /\ \A i \in 1..Len(a) : a[i][1] = L[i]
            /\ \A i \in 1..(Len(a) - 1) : a[i][2].kind # "text"
            /\ IF a # <<>> /\ Last(a)[2].kind = "text"
               THEN ret[c] = TextOf(L[Len(a)])
               ELSE ret[c] = None /\ Len(a) = Len(L)

\* C1, marking: the step that ends a rejected adapter call (an HTTP error)
\* applies mark_failure with the rejection's code to the attempted
\* credential, and the next candidate's call has not begun in that step
C1_Marked ==
    \A c \in Callers : (pc[c] = "call" /\ pc'[c] # "call") =>
        LET k == avail[c][idx[c]]
            o == Last(attempts'[c])[2]
        IN  o.kind = "http" =>
                /\ keys'[k] = mark_failure(keys[k], o.code, now)
                /\ pc'[c] \in {"try", "done"}

\* C1: failover. generate returns the text of the first candidate, in
\* selection order, whose adapter answered with non-empty text, and never a
\* failure when there is one; every rejected candidate tried before it has
\* had mark_failure applied with its outcome before the next one is tried
C1_Failover == []C1_Result /\ [][C1_Marked]_vars

\* C1 witness: the first candidate was rejected with 401 and is cooling, the
\* second, of another provider, answered, and its text was returned
C1_Witness ==
    \E c \in Callers :
        /\ pc[c] = "done"
        /\ Len(attempts[c]) = 2
        /\ attempts[c][1][2] = Http(401)
        /\ ret[c] = TextOf(attempts[c][2][1])
        /\ keys[attempts[c][1][1]].disabled
        /\ keys[attempts[c][1][1]].provider # keys[attempts[c][2][1]].provider

C3_NoCallInCooldown == \A c \in Callers : pc[c] = "call" => ~started[c]

\* the (provider, outcome) entries the value returned by generate carries:
\* a string or None carries none
Diagnostics(v) == <<>>

\* C10: when every candidate of a call failed, the returned failure carries
\* one (provider, outcome) entry per attempted candidate, in attempt order,
\* and the attempt has been recorded on each attempted credential
C10_ExhaustionDiagnostics ==
    \A c \in Callers :
        (/\ pc[c] = "done"
         /\ attempts[c] # <<>>
         /\ \A i \in 1..Len(attempts[c]) : attempts[c][i][2].kind # "text") =>
            /\ Diagnostics(ret[c]) =
                  [i \in 1..Len(attempts[c]) |->
                      <<keys[attempts[c][i][1]].provider, attempts[c][i][2]>>]
            /\ \A i \in 1..Len(attempts[c]) :
                  keys[attempts[c][i][1]].last_used > 0

C4_SuccessResets ==
    \A k \in DOMAIN keys :
        last[k].op = "success" =>
            keys[k].failures = 0 /\ keys[k].last_used = last[k].at

\* C4 witness: mark_success has acted on a counter that had reached the
\* threshold
C4_Witness ==
    \E k \in DOMAIN keys :
        /\ last[k].op = "success"
        /\ last[k].prev >= FailureThreshold
        /\ keys[k].failures = 0

\* C5: after three generic failures in a row from a counter of 0, the
\* credential is unavailable for 300 seconds from the third failure; once
\* they have elapsed it is available again and reading .available resets
\* the counter to 0
C5_ThreeGenericFailures ==
    \A k \in DOMAIN keys :
        (last[k].op = "failure" /\ last[k].streak = 3) =>
            /\ keys[k].disable_until = last[k].at + 300
            /\ now < last[k].at + 300 =>
                  keys[k].disabled /\ ~available(keys[k], now)
            /\ now >= last[k].at + 300 =>
                  /\ available(keys[k], now)
                  /\ ~available_effect(keys[k], now).disabled
                  /\ available_effect(keys[k], now).failures = 0

\* C5 witness: the window of the third generic failure has elapsed and a
\* read of .available has made the credential available with counter 0
C5_Witness ==
    \E k \in DOMAIN keys :
        /\ last[k].op = "failure"
        /\ last[k].streak = 3
        /\ now >= last[k].at + 300
        /\ ~keys[k].disabled
        /\ keys[k].failures = 0

\* C6 as claimed: a 429 on a counter of f disables for min(600, 30 * 2^f)
C6_BackoffFromPriorCounter ==
    \A k \in DOMAIN keys :
        (last[k].op = "failure" /\ last[k].code = 429) =>
            keys[k].disable_until =
                last[k].at + Min(600, 30 * (2 ^ last[k].prev))

\* C6 amended: a 429 on a counter of f disables for min(600, 30 * 2^(f+1)):
\* the duration is computed from the counter after its increment for this
\* event (60 s for f = 0)
C6_BackoffFromIncrementedCounter ==
    \A k \in DOMAIN keys :
        (last[k].op = "failure" /\ last[k].code = 429) =>
            /\ keys[k].disable_until =
                  last[k].at + Min(600, 30 * (2 ^ (last[k].prev + 1)))
            /\ keys[k].failures \in {0, last[k].prev + 1}

\* C6 witness: a first 429 (counter 0) has disabled the credential for 60 s
C6_Witness ==
    \E k \in DOMAIN keys :
        /\ last[k].op = "failure"
        /\ last[k].code = 429
        /\ last[k].prev = 0
        /\ keys[k].disabled
        /\ keys[k].disable_until = last[k].at + 60

C8_AuthFixedCooldown ==
    \A k \in DOMAIN keys :
        (last[k].op = "failure" /\ last[k].code \in {401, 403}) =>
            /\ keys[k].disable_until = last[k].at + 3600
            /\ keys[k].disabled \/ now >= keys[k].disable_until

\* C8 witness: a 403 on a counter that had reached the threshold
C8_Witness ==
    \E k \in DOMAIN keys :
        /\ last[k].op = "failure"
        /\ last[k].code = 403
        /\ last[k].prev >= FailureThreshold
        /\ keys[k].disabled
        /\ keys[k].disable_until = last[k].at + 3600


(***************************************************************************)
(* Claims about the failures generate reports                              *)
(***************************************************************************)
\* the step is thread c entering generate
Enters(c) ==
    /\ pc[c] \in {"idle", "done"}
    /\ \A b \in Callers : b < c => pc[b] \in {"try", "call"}
    /\ calls' = calls + 1

\* C11: a generate call whose candidate list is empty at its start (the pool
\* is empty, or every credential is cooling down) returns its failure in
\* that same step, with no adapter call made, and leaves the failure
\* counter, last_used and disable_until of every record as they were
C11_NoCandidateNoEffect ==
    [][\A c \in Callers :
          (Enters(c) /\ avail'[c] = <<>>) =>
              /\ pc'[c] = "done"
              /\ ret'[c] = None
              /\ attempts'[c] = <<>>
              /\ DOMAIN keys' = DOMAIN keys
              /\ \A k \in DOMAIN keys :
                    /\ keys'[k].failures = keys[k].failures
                    /\ keys'[k].last_used = keys[k].last_used
                    /\ keys'[k].disable_until = keys[k].disable_until]_vars

\* C11 witness: a call found every credential of a non-empty pool cooling
\* and returned without an attempt
C11_Witness ==
    \E c \in Callers :
        /\ pc[c] = "done"
        /\ avail[c] = <<>>
        /\ attempts[c] = <<>>
        /\ calls = 2
        /\ keys # <<>>
        /\ \A k \in DOMAIN keys :
              keys[k].disabled /\ now < keys[k].disable_until /\ keys[k].failures > 0

\* C11 witness, empty pool: a call on a pool without credentials returned
\* without an attempt
C11_WitnessEmptyPool ==
    \E c \in Callers : pc[c] = "done" /\ keys = <<>> /\ calls > 0


\* C12: the value generate returns after its candidates were tried and all
\* failed is never the value it returns when there was no candidate at all
C12_FailuresDistinguishable ==
    \A c \in Callers :
        (/\ pc[c] = "done"
         /\ attempts[c] # <<>>
         /\ Last(attempts[c])[2].kind # "text") =>
            ret[c] # NoCredentialsAvailable


\* the step is thread c's adapter call ending
Ends(c) == pc[c] = "call" /\ pc'[c] # "call"

\* C13, return: a call that has returned gave back the text of a credential
\* or the failure value, and a call in progress can always go on, whatever
\* its adapter call ends with
C13_Returns ==
    \A c \in Callers :
        /\ pc[c] = "done" =>
               ret[c] \in {None} \cup {TextOf(k) : k \in DOMAIN keys}
        /\ pc[c] = "try" => ENABLED StartCall(c)
        /\ pc[c] = "call" => \A o \in Outcomes : ENABLED Finish(c, o)

\* C13, recording: the step that ends an adapter call without text applies
\* mark_failure, with the outcome's code, to the attempted credential
C13_Recorded ==
    \A c \in Callers : Ends(c) =>
        LET k == avail[c][idx[c]]
            o == Last(attempts'[c])[2]
        IN  o.kind # "text" =>
                keys'[k] = mark_failure(keys[k], error_code(o), now)

\* C13: no failure of an attempt escapes generate. Whatever the adapter
\* calls end with, generate returns text or the failure value, and every
\* attempt that did not yield text has been recorded on its credential
C13_NoFailureEscapes == []C13_Returns /\ [][C13_Recorded]_vars

\* C14: the step that ends an adapter call with empty text increments the
\* failure counter of the attempted credential and does not return that
\* text; the call goes on to the next candidate or returns the failure value
C14_EmptyTextIsFailure ==
    [][\A c \in Callers : Ends(c) =>
          LET k == avail[c][idx[c]]
              o == Last(attempts'[c])[2]
          IN  o.kind = "empty" =>
                  /\ keys'[k].failures = keys[k].failures + 1
                  /\ ret'[c] # TextOf(k)
                  /\ pc'[c] = "done" => ret'[c] = None]_vars


(***************************************************************************)
(* The credential loaders: UnifiedLLM._load_all_keys and                   *)
(* LLMProvider.__init__, run on one environment.                           *)
(*                                                                         *)
(* A string is its text without the surrounding whitespace, and whether    *)
(* whitespace surrounds it.  The value of an environment variable is the   *)
(* sequence of the strings between its commas; the empty value is <<>>.    *)
(* The name of a variable is <<name, 0>>, of a numbered one <<prefix, i>>. *)
(***************************************************************************)
MinKeyLength == 10         \* _load_all_keys: len(k) > 10

Str(text, pad) == [text |-> text, pad |-> pad]

\* str.strip()
strip(x) == [x EXCEPT !.pad = FALSE]

\* len(): the surrounding whitespace is one blank on each side
len(x) == Len(x.text) + (IF x.pad THEN 2 ELSE 0)

\* truth value of a string
truthy(x) == x.text # "" \/ x.pad

\* os.environ.get(name, '')
get(env, name) == IF name \in DOMAIN env THEN env[name] ELSE <<>>

\* val.split(','): the empty string splits into one empty string
split(v) == IF v = <<>> THEN <<Str("", FALSE)>> ELSE v

\* the value as one string (a value without comma)
raw(v) == IF v = <<>> THEN Str("", FALSE) ELSE v[1]

\* val.strip() on a whole value: a value of blanks only becomes empty (the
\* blanks around the other values are removed by the strip of each part)
strip_value(v) ==
    IF Len(v) = 1 /\ v[1].text = "" THEN <<>> ELSE v

Range(q) == {q[i] : i \in DOMAIN q}

\* PROVIDERS[p]['env_keys']
env_keys(p) ==
    CASE p = "groq" -> <<"GROQ_API_KEYS", "GROQ_API_KEY">>
      [] p = "nvidia" -> <<"NVIDIA_API_KEYS", "NVIDIA_API_KEY">>
      [] p = "openrouter" -> <<"OPENROUTER_API_KEYS", "OPENROUTER_API_KEY">>
      [] p = "mistral" -> <<"MISTRAL_API_KEYS", "MISTRAL_API_KEY">>
      [] p = "deepseek" -> <<"DEEPSEEK_API_KEYS", "DEEPSEEK_API_KEY">>
      [] p = "zhipuai" -> <<"ZHIPUAI_API_KEYS", "ZHIPUAI_API_KEY", "GLM_API_KEY">>
      [] p = "gemini" -> <<"GEMINI_API_KEYS", "GEMINI_API_KEY", "GOOGLE_API_KEY">>

\* PROVIDERS[p]['env_numbered_prefix']
env_numbered_prefix(p) ==
    CASE p = "groq" -> "GROQ_API_KEY_"
      [] p = "nvidia" -> "NVIDIA_API_KEY_"
      [] p = "openrouter" -> "OPENROUTER_API_KEY_"
      [] p = "mistral" -> "MISTRAL_API_KEY_"
      [] p = "deepseek" -> "DEEPSEEK_API_KEY_"
      [] p = "zhipuai" -> "ZHIPUAI_API_KEY_"
      [] p = "gemini" -> "GEMINI_API_KEY_"

\* PROVIDERS[p]['max_numbered']
max_numbered(p) ==
    CASE p \in {"groq", "openrouter", "deepseek", "zhipuai", "gemini"} -> 10
      [] p \in {"nvidia", "mistral"} -> 5

\* mutant of csv_keys: the parts of a list are not stripped
csv_keys_unstripped(env, p) ==
    UNION {LET val == strip_value(get(env, <<env_keys(p)[n], 0>>))
           IN  IF val = <<>> THEN {}
               ELSE {k \in Range(split(val)) :
                        truthy(k) /\ len(k) > MinKeyLength}
           : n \in DOMAIN env_keys(p)}

\* lines 176-183: the keys the variables of env_keys add to keys_found
csv_keys(env, p) ==
    UNION {LET val == strip_value(get(env, <<env_keys(p)[n], 0>>))
           IN  IF val = <<>> THEN {}
               ELSE {k \in {strip(x) : x \in Range(split(val))} :
                        truthy(k) /\ len(k) > MinKeyLength}
           : n \in DOMAIN env_keys(p)}

\* lines 185-190: the keys the numbered variables add to keys_found
numbered_keys(env, p) ==
    {val \in {strip(raw(get(env, <<env_numbered_prefix(p), i>>))) :
                 i \in 1..max_numbered(p)} :
        truthy(val) /\ len(val) > MinKeyLength}

\* keys_found when the loop body of provider p ends
keys_found(env, p) == csv_keys(env, p) \cup numbered_keys(env, p)

\* the orders in which the elements of the set S can be listed
Orders(S) ==
    {q \in [1..Cardinality(S) -> S] : \A i, j \in DOMAIN q : q[i] = q[j] => i = j}

\* position of x in the list q
position(q, x) == CHOOSE i \in DOMAIN q : q[i] = x

\* lines 192-201: the lists self.keys can be after the load. enumerate()
\* numbers the keys of a provider in the iteration order of the set (here:
\* their order in e), and random.shuffle leaves the records in any order q
load_all_keys(env) ==
    LET found == [p \in Range(PROVIDERS) |-> keys_found(env, p)]
        pairs == {<<p, k>> : p \in Range(PROVIDERS), k \in UNION Range(found)}
        recs == {x \in pairs : x[2] \in found[x[1]]}
        number(e, x) ==
            Cardinality({j \in 1..position(e, x) : e[j][1] = x[1]})
    IN  {[i \in DOMAIN q |->
             [provider |-> q[i][1], key |-> q[i][2], index |-> number(e, q[i])]]
         : q \in Orders(recs), e \in Orders(recs)}

\* UnifiedLLM.__init__, line 162
LoadAllKeys ==
    /\ "UnifiedLLM" \notin constructed
    /\ constructed' = constructed \cup {"UnifiedLLM"}
    /\ loaded' \in load_all_keys(environ)
    /\ UNCHANGED <<environ, providers, gatewayVars, providerVars, raceVars,
                   stateVars, agentVars>>

\* _parse_keys
parse_keys(env, name) ==
    LET keep(k) == truthy(strip(k))
        parts == SelectSeq(split(get(env, <<name, 0>>)), keep)
    IN  [i \in DOMAIN parts |-> strip(parts[i])]

\* config.py, LLMConfig: the value of the variable as it is
config_key(env, name) == raw(get(env, <<name, 0>>))

\* [key] if key else []
single(key) == IF truthy(key) THEN <<key>> ELSE <<>>

\* a or b, on lists
or(a, b) == IF a # <<>> THEN a ELSE b

\* LLMProvider.__init__, lines 29-34: the keys of each provider
provider_keys(env, name) ==
    CASE name = "groq" ->
             or(parse_keys(env, "GROQ_API_KEYS"),
                single(config_key(env, "GROQ_API_KEY")))
      [] name = "nvidia" ->
             or(parse_keys(env, "NVIDIA_API_KEYS"),
                single(config_key(env, "NVIDIA_API_KEY")))
      [] name = "openrouter" -> parse_keys(env, "OPENROUTER_API_KEYS")
      [] name = "mistral" -> parse_keys(env, "MISTRAL_API_KEYS")
      [] name = "deepseek" -> parse_keys(env, "DEEPSEEK_API_KEYS")
      [] name = "gemini" -> single(config_key(env, "GEMINI_API_KEY"))

\* mutant of ProviderOrder: gemini is appended first
ProviderOrder_gemini_first ==
    <<"gemini", "groq", "nvidia", "openrouter", "mistral", "deepseek">>

\* LLMProvider.__init__, lines 36-47: the order of the appends
ProviderOrder ==
    <<"groq", "nvidia", "openrouter", "mistral", "deepseek", "gemini">>

\* LLMProvider.__init__, lines 36-47: self.providers
RECURSIVE build_providers(_, _)
build_providers(env, n) ==
    IF n > Len(ProviderOrder) THEN <<>>
    ELSE LET name == ProviderOrder[n]
             ks == provider_keys(env, name)
         IN  (IF ks # <<>> THEN <<[name |-> name, keys |-> ks]>> ELSE <<>>)
             \o build_providers(env, n + 1)

\* LLMProvider.__init__ (autonomous_loop.py passes the keys of LLMConfig)
ProviderInit ==
    /\ "LLMProvider" \notin constructed
    /\ constructed' = constructed \cup {"LLMProvider"}
    /\ providers' = build_providers(environ, 1)
    /\ UNCHANGED <<environ, loaded, gatewayVars, providerVars, raceVars,
                   stateVars, agentVars>>

\* the secrets of the environments
SecretA == Str("gsk_secret_A", FALSE)
SecretB == Str("gsk_secret_B", FALSE)
SecretC == Str("gsk_secret_C", FALSE)
Secret11 == Str("key_11chars", FALSE)      \* 11 characters
Secret10 == Str("key_10char", FALSE)       \* 10 characters
SecretD == Str("gsk_secret_D", FALSE)
Blank == Str("", FALSE)

\* the environments: for each variable, the values it may hold (<<>>: unset)
EnvChoices ==
    [GROQ_API_KEYS : {<<>>, <<SecretA, Str("gsk_secret_B", TRUE)>>,
                      <<Secret10, Blank>>},
     GROQ_API_KEY : {<<>>, <<SecretC>>, <<Str("gsk_secret_A", TRUE)>>},
     GROQ_API_KEY_1 : {<<>>, <<SecretA>>, <<Secret11>>},
     GROQ_API_KEY_10 : {<<>>, <<Str("gsk_secret_B", TRUE)>>},
     GROQ_API_KEY_11 : {<<>>, <<SecretD>>},
     NVIDIA_API_KEYS : {<<>>, <<SecretA>>}]

Environ(c) ==
    LET all == (<<"GROQ_API_KEYS", 0>> :> c.GROQ_API_KEYS)
               @@ (<<"GROQ_API_KEY", 0>> :> c.GROQ_API_KEY)
               @@ (<<"GROQ_API_KEY_", 1>> :> c.GROQ_API_KEY_1)
               @@ (<<"GROQ_API_KEY_", 10>> :> c.GROQ_API_KEY_10)
               @@ (<<"GROQ_API_KEY_", 11>> :> c.GROQ_API_KEY_11)
               @@ (<<"NVIDIA_API_KEYS", 0>> :> c.NVIDIA_API_KEYS)
    IN  [n \in {m \in DOMAIN all : all[m] # <<>>} |-> all[n]]

InitLoad ==
    /\ \E c \in EnvChoices : environ = Environ(c)
    /\ constructed = {}
    /\ loaded = <<>>
    /\ providers = <<>>
    /\ GatewayInit(<<>>)
    /\ ProviderIdle
    /\ RaceIdle
    /\ StateIdle
    /\ AgentIdle

NextLoad == LoadAllKeys \/ ProviderInit

SpecLoad == InitLoad /\ [][NextLoad]_vars


(***************************************************************************)
(* Claims about the loaders                                                *)
(***************************************************************************)
\* the names of the variables of provider p: list form and singular form
\* (env_keys), numbered form 1..max_numbered
Forms(p) ==
    {<<env_keys(p)[n], 0>> : n \in DOMAIN env_keys(p)}
        \cup {<<env_numbered_prefix(p), i>> : i \in 1..max_numbered(p)}

\* the secrets, as text, the environment supplies for provider p through
\* any naming form, those of MinKeyLength characters or fewer left out
Supplied(env, p) ==
    {t \in {x.text : x \in UNION {Range(get(env, n)) : n \in Forms(p)}} :
        Len(t) > MinKeyLength}

\* C15: after the load the pool holds exactly one record per distinct
\* (provider, secret): no two records share provider and secret, a secret
\* supplied for a provider, through however many naming forms, has one
\* record of that provider, and there is no other record; so a secret
\* supplied for two providers has two records
C15_OneRecordPerPair ==
    "UnifiedLLM" \in constructed =>
        /\ \A i, j \in DOMAIN loaded :
              (loaded[i].provider = loaded[j].provider
                  /\ loaded[i].key.text = loaded[j].key.text) => i = j
        /\ \A p \in Range(PROVIDERS) : \A t \in Supplied(environ, p) :
              \E i \in DOMAIN loaded :
                  loaded[i].provider = p /\ loaded[i].key.text = t
        /\ \A i \in DOMAIN loaded :
              loaded[i].key.text \in Supplied(environ, loaded[i].provider)

\* C15 witness: one secret was supplied for groq in list form, in singular
\* form (with blanks around it) and in numbered form, and for nvidia too;
\* the pool holds one groq record and one nvidia record with it
C15_Witness ==
    /\ "UnifiedLLM" \in constructed
    /\ SecretA \in Range(get(environ, <<"GROQ_API_KEYS", 0>>))
    /\ get(environ, <<"GROQ_API_KEY", 0>>) = <<Str("gsk_secret_A", TRUE)>>
    /\ get(environ, <<"GROQ_API_KEY_", 1>>) = <<SecretA>>
    /\ get(environ, <<"NVIDIA_API_KEYS", 0>>) = <<SecretA>>
    /\ Cardinality({i \in DOMAIN loaded : loaded[i].key = SecretA}) = 2
    /\ {loaded[i].provider : i \in DOMAIN loaded} = {"groq", "nvidia"}


\* the secrets UnifiedLLM loaded for provider p, as text
LoadedFor(p) ==
    {loaded[i].key.text : i \in {j \in DOMAIN loaded : loaded[j].provider = p}}

\* the secrets LLMProvider loaded for provider p, as text
ProviderLoadedFor(p) ==
    UNION {{providers[i].keys[j].text : j \in DOMAIN providers[i].keys}
           : i \in {n \in DOMAIN providers : providers[n].name = p}}

\* the secrets, as text, supplied for provider p, whatever their length
SuppliedAnyLength(env, p) ==
    {x.text : x \in UNION {Range(get(env, n)) : n \in Forms(p)}} \ {""}

\* C19, UnifiedLLM: the secrets loaded for a provider are those supplied in
\* list form, singular form or numbered form 1..max_numbered, without the
\* too short ones
C19_UnifiedLoadsUnion ==
    "UnifiedLLM" \in constructed =>
        \A p \in Range(PROVIDERS) : LoadedFor(p) = Supplied(environ, p)

\* C19: each loader loads, for every provider, the union of the secrets of
\* the three naming forms without the too short ones (for LLMProvider,
\* whatever length it takes as too short, up to MinKeyLength): no form
\* suppresses another
C19_LoadedIsUnion ==
    /\ C19_UnifiedLoadsUnion
    /\ "LLMProvider" \in constructed =>
          \A p \in Range(ProviderOrder) :
              /\ Supplied(environ, p) \subseteq ProviderLoadedFor(p)
              /\ ProviderLoadedFor(p) \subseteq SuppliedAnyLength(environ, p)


\* C19, the failing case: the list form and the singular form of groq hold
\* different secrets, and LLMProvider holds the list's only
C19_SingularSuppressed ==
    /\ "LLMProvider" \in constructed
    /\ get(environ, <<"GROQ_API_KEYS", 0>>) # <<>>
    /\ get(environ, <<"GROQ_API_KEY", 0>>) = <<SecretC>>
    /\ "gsk_secret_A" \in ProviderLoadedFor("groq")
    /\ "gsk_secret_C" \notin ProviderLoadedFor("groq")


(***************************************************************************)
(* The methods of one ProviderState run by two threads at once, one        *)
(* statement at a time: ProviderState holds no lock, and generate calls    *)
(* the methods of a record it shares with the other generate calls.        *)
(* `self.failures += 1` is a read followed by a write.                     *)
(***************************************************************************)
RaceOps ==
    {<<"mark_success", 0>>, <<"mark_failure", 0>>, <<"mark_failure", 401>>,
     <<"mark_failure", 429>>, <<"available", 0>>}

\* the record when the two methods begin: new; after two generic failures;
\* rate limited at time 1, the cooldown over
RaceRecords ==
    {NewState("groq"),
     mark_failure(mark_failure(NewState("groq"), 0, 1), 0, 2),
     mark_failure(NewState("groq"), 429, 1)}

InitRace ==
    /\ \E r \in RaceRecords : keys = <<r>> /\ rinit = r
    /\ rop \in [Callers -> RaceOps]
    /\ rpc = [t \in Callers |-> "start"]
    /\ reg = [t \in Callers |-> 0]
    /\ preferred_providers = PROVIDERS
    /\ now = 100
    /\ ticks = 0
    /\ pc = [c \in Callers |-> "idle"]
    /\ avail = [c \in Callers |-> <<>>]
    /\ idx = [c \in Callers |-> 0]
    /\ ret = [c \in Callers |-> None]
    /\ attempts = [c \in Callers |-> <<>>]
    /\ started = [c \in Callers |-> FALSE]
    /\ calls = 0
    /\ last = <<NoMark>>
    /\ LoaderIdle
    /\ ProviderIdle
    /\ StateIdle
    /\ AgentIdle

\* what a statement of thread t leaves alone
RaceFrame ==
    UNCHANGED <<preferred_providers, now, ticks, callVars, last, loaderVars,
                providerVars, stateVars, agentVars,
                rop, rinit>>

\* thread t goes to statement next
Goto(t, next) == rpc' = [rpc EXCEPT ![t] = next]

\* line 122, `self.failures += 1`: the read
FLoad(t) ==
    /\ rpc[t] = "start" /\ rop[t][1] = "mark_failure"
    /\ reg' = [reg EXCEPT ![t] = keys[1].failures]
    /\ Goto(t, "f_store")
    /\ keys' = keys
    /\ RaceFrame

\* line 122, `self.failures += 1`: the write
FStore(t) ==
    /\ rpc[t] = "f_store"
    /\ keys' = [keys EXCEPT ![1].failures = reg[t] + 1]
    /\ Goto(t, "f_used")
    /\ reg' = reg
    /\ RaceFrame

\* line 123
FUsed(t) ==
    /\ rpc[t] = "f_used"
    /\ keys' = [keys EXCEPT ![1].last_used = now]
    /\ Goto(t, "f_branch")
    /\ reg' = reg
    /\ RaceFrame

\* lines 126, 131, 133, 137: the branch is chosen; the rate-limit branch
\* computes backoff from the counter as it is now
FBranch(t) ==
    /\ rpc[t] = "f_branch"
    /\ IF rop[t][2] \in {401, 403}
       THEN Goto(t, "f_auth_flag") /\ reg' = reg
       ELSE IF rop[t][2] = 429
       THEN /\ Goto(t, "f_rate_until")
            /\ reg' = [reg EXCEPT ![t] = backoff(keys[1].failures)]
       ELSE IF keys[1].failures >= FailureThreshold
       THEN Goto(t, "f_gen_flag") /\ reg' = reg
       ELSE Goto(t, "done") /\ reg' = reg
    /\ keys' = keys
    /\ RaceFrame

\* lines 128, 135, 139: self.disabled = True
FDisable(t) ==
    /\ rpc[t] \in {"f_auth_flag", "f_rate_flag", "f_gen_flag"}
    /\ keys' = [keys EXCEPT ![1].disabled = TRUE]
    /\ Goto(t, CASE rpc[t] = "f_auth_flag" -> "f_auth_until"
                 [] rpc[t] = "f_rate_flag" -> "done"
                 [] rpc[t] = "f_gen_flag" -> "f_gen_until")
    /\ reg' = reg
    /\ RaceFrame

\* lines 129, 134, 140: self.disable_until = time.time() + ...
FUntil(t) ==
    /\ rpc[t] \in {"f_auth_until", "f_rate_until", "f_gen_until"}
    /\ keys' = [keys EXCEPT ![1].disable_until =
                   now + (CASE rpc[t] = "f_auth_until" -> AuthCooldown
                            [] rpc[t] = "f_rate_until" -> reg[t]
                            [] rpc[t] = "f_gen_until" -> GenericCooldown)]
    /\ Goto(t, IF rpc[t] = "f_rate_until" THEN "f_rate_flag" ELSE "done")
    /\ reg' = reg
    /\ RaceFrame

\* line 118
SReset(t) ==
    /\ rpc[t] = "start" /\ rop[t][1] = "mark_success"
    /\ keys' = [keys EXCEPT ![1].failures = 0]
    /\ Goto(t, "s_used")
    /\ reg' = reg
    /\ RaceFrame

\* line 119
SUsed(t) ==
    /\ rpc[t] = "s_used"
    /\ keys' = [keys EXCEPT ![1].last_used = now]
    /\ Goto(t, "done")
    /\ reg' = reg
    /\ RaceFrame

\* lines 110-112: the two tests of .available
ACheck(t) ==
    /\ rpc[t] = "start" /\ rop[t][1] = "available"
    /\ IF keys[1].disabled /\ now < keys[1].disable_until
       THEN Goto(t, "done")
       ELSE IF keys[1].disabled /\ now >= keys[1].disable_until
       THEN Goto(t, "a_clear")
       ELSE Goto(t, "done")
    /\ keys' = keys
    /\ reg' = reg
    /\ RaceFrame

\* line 113
AClear(t) ==
    /\ rpc[t] = "a_clear"
    /\ keys' = [keys EXCEPT ![1].disabled = FALSE]
    /\ Goto(t, "a_zero")
    /\ reg' = reg
    /\ RaceFrame

\* line 114
AZero(t) ==
    /\ rpc[t] = "a_zero"
    /\ keys' = [keys EXCEPT ![1].failures = 0]
    /\ Goto(t, "done")
    /\ reg' = reg
    /\ RaceFrame

NextRace ==
    \/ \E t \in Callers : FLoad(t)
    \/ \E t \in Callers : FStore(t)
    \/ \E t \in Callers : FUsed(t)
    \/ \E t \in Callers : FBranch(t)
    \/ \E t \in Callers : FDisable(t)
    \/ \E t \in Callers : FUntil(t)
    \/ \E t \in Callers : SReset(t)
    \/ \E t \in Callers : SUsed(t)
    \/ \E t \in Callers : ACheck(t)
    \/ \E t \in Callers : AClear(t)
    \/ \E t \in Callers : AZero(t)

SpecRace == InitRace /\ [][NextRace]_vars

\* the record after the method op ran on r alone
apply(op, r) ==
    CASE op[1] = "mark_success" -> mark_success(r, now)
      [] op[1] = "mark_failure" -> mark_failure(r, op[2], now)
      [] op[1] = "available" -> available_effect(r, now)

\* a method that ran with the other thread outside its own method did what
\* the method does as a whole
RaceAloneAgrees ==
    \A t, u \in Callers :
        (t # u /\ rpc[t] = "done" /\ rpc[u] = "start") =>
            keys[1] = apply(rop[t], rinit)

\* C16: when the two methods have ended the record is what one of the two
\* sequential orders of the methods leaves; two concurrent mark_failure
\* raise the failure counter by 2
C16_RaceFree ==
    (\A t \in Callers : rpc[t] = "done") =>
        /\ keys[1] \in {apply(rop[2], apply(rop[1], rinit)),
                        apply(rop[1], apply(rop[2], rinit))}
        /\ (\A t \in Callers : rop[t][1] = "mark_failure") =>
               keys[1].failures = rinit.failures + 2

\* C16, the lost update: two mark_failure have ended and the counter is
\* one above what it was
C16_LostUpdate ==
    /\ \A t \in Callers : rpc[t] = "done" /\ rop[t][1] = "mark_failure"
    /\ keys[1].failures = rinit.failures + 1


(***************************************************************************)
(* Claims about the reads of the pool                                      *)
(***************************************************************************)
\* the record r after a cooldown that is over at time t was ended
cooldown_ended(r, t) ==
    IF r.disabled /\ r.disable_until <= t
    THEN [r EXCEPT !.disabled = FALSE, !.failures = 0]
    ELSE r

\* the step is a read of status: nothing but the records can change
StatusRead == UNCHANGED <<callVars, now, ticks>>

\* C17, as claimed: the step in which a generate call computes its candidate
\* list leaves every record as it was
C17_SelectionIsPure ==
    [][\A c \in Callers : Enters(c) => keys' = keys]_vars

\* C17, amended: the step in which a generate call computes its candidate
\* list changes a record only by ending a cooldown that is over (disabled
\* cleared, failure counter back to 0); last_used and disable_until are
\* never changed by it, and a record that is not disabled, or still cooling,
\* is left as it was.  In every step, a record changes only in that way or
\* through mark_success or mark_failure
C17_SelectionOnlyEndsCooldowns ==
    [][/\ \A c \in Callers : Enters(c) =>
              \A k \in DOMAIN keys :
                  /\ keys'[k] = cooldown_ended(keys[k], now)
                  /\ keys'[k].last_used = keys[k].last_used
                  /\ keys'[k].disable_until = keys[k].disable_until
       /\ \A k \in DOMAIN keys :
              \/ keys'[k] = keys[k]
              \/ keys'[k] = cooldown_ended(keys[k], now)
              \/ keys'[k] = mark_success(keys[k], now)
              \/ \E o \in Outcomes :
                     keys'[k] = mark_failure(keys[k], error_code(o), now)]_vars

\* C17 witness: a generate call has just computed its candidate list, and a
\* credential that a failure had put in cooldown is in it, its cooldown
\* over, its failure counter back to 0
C17_Witness ==
    \E c \in Callers :
        /\ pc[c] = "try"
        /\ idx[c] = 1
        /\ calls = 2
        /\ \E i \in 1..Len(avail[c]) :
              LET r == keys[avail[c][i]]
              IN  /\ r.disable_until > 0
                  /\ r.disable_until <= now
                  /\ ~r.disabled
                  /\ r.failures = 0
                  /\ r.last_used > 0

\* C18, as claimed: a read of status leaves every field of every record as
\* it was
C18_StatusIsReadOnly ==
    [][StatusRead => keys' = keys]_vars

\* C18, amended: a read of status changes a record only by ending a
\* cooldown that is over (disabled cleared, failure counter back to 0), as
\* the next selection would; it never changes last_used or disable_until,
\* and the candidate list selection returns, at the time of the read or
\* later, is the same after the read as before it
C18_StatusOnlyEndsCooldowns ==
    [][StatusRead =>
          /\ \A k \in DOMAIN keys :
                /\ keys'[k] = cooldown_ended(keys[k], now)
                /\ keys'[k].last_used = keys[k].last_used
                /\ keys'[k].disable_until = keys[k].disable_until
          /\ keys' # keys =>
                \A t \in {now} \cup {now + d : d \in Deltas} :
                    get_available_keys(keys', preferred_providers, t)
                        = get_available_keys(keys, preferred_providers, t)]_vars

\* C18 witness: no generate call is running, a credential that failed is
\* out of its cooldown with its counter back to 0 though no call has
\* selected it since, and a snapshot counts it as available
C18_Witness ==
    /\ \A c \in Callers : pc[c] = "done" \/ pc[c] = "idle"
    /\ calls = 1
    /\ \E k \in DOMAIN keys :
          /\ keys[k].disable_until > 0
          /\ keys[k].disable_until <= now
          /\ ~keys[k].disabled
          /\ keys[k].failures = 0
          /\ keys[k].last_used > 0
          /\ status_counts(keys, now, keys[k].provider).available > 0


(***************************************************************************)
(* LLMProvider.generate (src/core/llm_provider.py), one call on the        *)
(* providers LLMProvider.__init__ built from the environment.              *)
(***************************************************************************)
\* what one _call ends with: a returned string, or an exception
Returned(x) == [kind |-> "return", value |-> x]
Raised == [kind |-> "raise", value |-> Str("", FALSE)]

Answer == Str("answer", TRUE)          \* text, with a newline after it

\* a string of blanks counts as no answer, like the empty string
CallOutcomes ==
    {Returned(Answer), Returned(Str("", TRUE)), Returned(Str("", FALSE)),
     Raised}

\* line 67: result and result.strip()
accepted(o) ==
    o.kind = "return" /\ truthy(o.value) /\ truthy(strip(o.value))

\* lines 62-63: the orders random.shuffle can leave the list in
shuffles(ks) ==
    {[i \in DOMAIN ks |-> ks[q[i]]] : q \in Orders(DOMAIN ks)}

\* the environments of the calls
ProviderEnvChoices ==
    (<<"GROQ_API_KEYS", 0>> :> {<<>>, <<SecretA, SecretB>>,
                                <<SecretA, SecretA>>})
    @@ (<<"NVIDIA_API_KEY", 0>> :> {<<>>, <<SecretC>>})
    @@ (<<"OPENROUTER_API_KEYS", 0>> :> {<<>>, <<SecretD>>})
    @@ (<<"MISTRAL_API_KEYS", 0>> :> {<<>>, <<SecretC>>})
    @@ (<<"DEEPSEEK_API_KEYS", 0>> :> {<<>>, <<SecretA>>})
    @@ (<<"GEMINI_API_KEY", 0>> :> {<<>>, <<SecretB>>})

ProviderEnvs ==
    LET names == DOMAIN ProviderEnvChoices
        values == UNION {ProviderEnvChoices[n] : n \in names}
        full == {f \in [names -> values] :
                    \A n \in names : f[n] \in ProviderEnvChoices[n]}
    IN  {[n \in {m \in names : f[m] # <<>>} |-> f[n]] : f \in full}

InitProvider ==
    /\ environ \in ProviderEnvs
    /\ constructed = {}
    /\ loaded = <<>>
    /\ providers = <<>>
    /\ GatewayInit(<<>>)
    /\ ProviderIdle
    /\ RaceIdle
    /\ StateIdle
    /\ AgentIdle

\* lines 61-63: the outer loop takes the provider at position n, or the
\* call returns "" when there is none left (line 77)
enter_provider(n) ==
    IF n > Len(providers)
    THEN /\ ppc' = "done"
         /\ presult' = Str("", FALSE)
         /\ UNCHANGED <<pi, shuffled, ki>>
    ELSE /\ ppc' = "loop"
         /\ pi' = n
         /\ shuffled' \in shuffles(providers[n].keys)
         /\ ki' = 1
         /\ presult' = presult

\* LLMProvider.generate is called
Generate ==
    /\ "LLMProvider" \in constructed
    /\ ppc = "idle"
    /\ tried' = <<>>
    /\ enter_provider(1)
    /\ UNCHANGED <<loaderVars, gatewayVars, raceVars, stateVars, agentVars>>

\* lines 64-74: one pass of the inner loop, the _call ending with o
Attempt(o) ==
    /\ ppc = "loop"
    /\ tried' = Append(tried, [name |-> providers[pi].name,
                               key |-> shuffled[ki], outcome |-> o])
    /\ IF accepted(o)
       THEN /\ ppc' = "done"
            /\ presult' = o.value
            /\ UNCHANGED <<pi, shuffled, ki>>
       ELSE IF ki < Len(shuffled)
       THEN /\ ki' = ki + 1
            /\ UNCHANGED <<ppc, pi, shuffled, presult>>
       ELSE enter_provider(pi + 1)
    /\ UNCHANGED <<loaderVars, gatewayVars, raceVars, stateVars, agentVars>>

NextProvider ==
    \/ ProviderInit
    \/ Generate
    \/ \E o \in CallOutcomes : Attempt(o)

SpecProvider == InitProvider /\ [][NextProvider]_vars

\* the priority order of the module docstring, Gemini after it
PriorityOrder ==
    <<"groq", "nvidia", "openrouter", "mistral", "deepseek", "gemini">>

\* C20: in every state of a generate call, an attempt with a key of some
\* provider comes only after every key of every configured provider that
\* is earlier in the order Groq, NVIDIA, OpenRouter, Mistral, DeepSeek,
\* Gemini has been attempted in this call, each without an accepted answer
\* (an exception, or blank text); and no attempt of an earlier provider
\* follows
C20_PriorityOrder ==
    \A j \in DOMAIN tried :
        /\ \A i \in 1..(j - 1) :
              index(PriorityOrder, tried[i].name)
                  <= index(PriorityOrder, tried[j].name)
        /\ \A q \in DOMAIN providers :
              index(PriorityOrder, providers[q].name)
                    < index(PriorityOrder, tried[j].name) =>
                  LET before == {i \in 1..(j - 1) :
                                    tried[i].name = providers[q].name}
                  IN  /\ Cardinality(before) = Len(providers[q].keys)
                      /\ \A n \in DOMAIN providers[q].keys :
                            \E i \in before : tried[i].key = providers[q].keys[n]
                      /\ \A i \in before : ~accepted(tried[i].outcome)

\* C20 witness: both groq keys and the nvidia key failed (an exception, a
\* blank answer, an empty one), then the openrouter key answered
C20_Witness ==
    /\ ppc = "done"
    /\ Len(tried) = 4
    /\ tried[1].name = "groq" /\ tried[1].outcome = Raised
    /\ tried[2].name = "groq" /\ tried[2].outcome = Returned(Str("", TRUE))
    /\ tried[3].name = "nvidia" /\ tried[3].outcome = Returned(Str("", FALSE))
    /\ tried[4].name = "openrouter" /\ presult = Answer
    /\ \E q \in DOMAIN providers : providers[q].name = "gemini"

(***************************************************************************)
(* StateManager (src/core/state_manager.py): the JSON files of one state   *)
(* directory and the methods that read and rewrite them.  _read and _write *)
(* each hold self._lock for the time of one file access, so each is one    *)
(* step; a method is the sequence of its _read and _write calls.  The      *)
(* timestamps, content, topic and metadata of an entry are left out: an    *)
(* entry is its platform and its post_id.                                  *)
(***************************************************************************)
HistoryCap == 500          \* log_post, log_engagement: history[-500:]
DefaultCount == 20         \* get_post_history: n = 20

MaxStateCalls == 3         \* method calls made in one behaviour

Platforms == {"test", "moltbook"}

\* the n of the get_post_history calls
Counts == {1, 5, DefaultCount}

\* the post history the state directory holds when the StateManager is
\* constructed: none, or one that a further post fills to the cap, or a
\* full one
EarlierLengths == {0, HistoryCap - 1, HistoryCap}

Entry(platform, post_id) == [platform |-> platform, post_id |-> post_id]

\* the entries of an earlier run
Earlier(n) == [i \in 1..n |-> Entry("earlier", i)]

\* __init__, lines 37-44: the agent state written when there is none
InitialAgent ==
    [cycle_count |-> 0, total_posts |-> 0, total_engagements |-> 0,
     status |-> "initialized"]

\* s[-n:] for n >= 1
slice_last(s, n) ==
    IF Len(s) <= n THEN s ELSE SubSeq(s, Len(s) - n + 1, Len(s))

\* _read(key): the content of the file (a history file that does not exist
\* reads as the empty list, which is what it holds here)
read(key) == files[key]

\* _write(key, data)
write(key, data) == [files EXCEPT ![key] = data]

\* mutant of heartbeat_state: the counter is set, not incremented
heartbeat_state_set(state) ==
    [state EXCEPT !.cycle_count = 1, !.status = "running"]

\* heartbeat, lines 66-68
heartbeat_state(state) ==
    [state EXCEPT !.cycle_count = @ + 1, !.status = "running"]

\* update_agent, line 77: state.update(kwargs)
update(state, kwargs) ==
    [k \in DOMAIN state |-> IF k \in DOMAIN kwargs THEN kwargs[k] ELSE state[k]]

\* mutant of appended: the newest entries are dropped at the cap
appended_keep_oldest(history, entry) ==
    LET h == Append(history, entry)
    IN  IF Len(h) <= HistoryCap THEN h ELSE SubSeq(h, 1, HistoryCap)

\* log_post, lines 94-96 (log_engagement, lines 128-129)
appended(history, entry) == slice_last(Append(history, entry), HistoryCap)

\* no method is running in the thread
NoCall == [name |-> "none", platform |-> "", post_id |-> 0, kwargs |-> <<>>]

NoLocals == [state |-> <<>>, history |-> <<>>]

\* StateManager.__init__ on a directory without agent_state.json
InitFiles(n) ==
    /\ files = [agent |-> InitialAgent, posts |-> Earlier(n),
                engagement |-> <<>>]
    /\ mop = [t \in Callers |-> NoCall]
    /\ mpc = [t \in Callers |-> "idle"]
    /\ mloc = [t \in Callers |-> NoLocals]
    /\ mret = [t \in Callers |-> [n |-> 0, history |-> <<>>]]
    /\ performed = [calls |-> 0, heartbeat |-> 0, log_post |-> 0,
                    log_engagement |-> 0, earlier |-> Earlier(n),
                    logged |-> <<>>]

StateInit(lengths) ==
    /\ \E n \in lengths : InitFiles(n)
    /\ GatewayInit(<<>>)
    /\ LoaderIdle
    /\ ProviderIdle
    /\ RaceIdle
    /\ AgentIdle

InitState == StateInit(EarlierLengths)

\* what a step of a StateManager method leaves alone
StateFrame ==
    UNCHANGED <<gatewayVars, loaderVars, providerVars, raceVars, agentVars>>

\* thread t calls the method `name` and goes to its statement `at`.
\* Threads are interchangeable: a call is made by the first free thread.
Enter(t, name, platform, kwargs, at) ==
    /\ mpc[t] = "idle"
    /\ \A b \in Callers : b < t => mpc[b] # "idle"
    /\ performed.calls < MaxStateCalls
    /\ mop' = [mop EXCEPT ![t] = [name |-> name, platform |-> platform,
                                  post_id |-> performed.calls + 1,
                                  kwargs |-> kwargs]]
    /\ mpc' = [mpc EXCEPT ![t] = at]

\* thread t returns from its method
Return(t) ==
    /\ mop' = [mop EXCEPT ![t] = NoCall]
    /\ mpc' = [mpc EXCEPT ![t] = "idle"]
    /\ mloc' = [mloc EXCEPT ![t] = NoLocals]

\* heartbeat, line 65
HeartbeatRead(t) ==
    /\ Enter(t, "heartbeat", "", <<>>, "h_write")
    /\ mloc' = [mloc EXCEPT ![t].state = read("agent")]
    /\ performed' = [performed EXCEPT !.calls = @ + 1]
    /\ UNCHANGED <<files, mret>>
    /\ StateFrame

\* heartbeat, lines 66-70
HeartbeatWrite(t) ==
    /\ mpc[t] = "h_write"
    /\ files' = write("agent", heartbeat_state(mloc[t].state))
    /\ Return(t)
    /\ performed' = [performed EXCEPT !.heartbeat = @ + 1]
    /\ mret' = mret
    /\ StateFrame

\* update_agent, line 76
UpdateRead(t, kwargs) ==
    /\ Enter(t, "update_agent", "", kwargs, "u_write")
    /\ mloc' = [mloc EXCEPT ![t].state = read("agent")]
    /\ performed' = [performed EXCEPT !.calls = @ + 1]
    /\ UNCHANGED <<files, mret>>
    /\ StateFrame

\* update_agent, lines 77-78
UpdateWrite(t) ==
    /\ mpc[t] = "u_write"
    /\ files' = write("agent", update(mloc[t].state, mop[t].kwargs))
    /\ Return(t)
    /\ UNCHANGED <<mret, performed>>
    /\ StateFrame

\* log_post, line 84
PostRead(t, platform) ==
    /\ Enter(t, "log_post", platform, <<>>, "p_write")
    /\ mloc' = [mloc EXCEPT ![t].history = read("posts")]
    /\ performed' = [performed EXCEPT !.calls = @ + 1]
    /\ UNCHANGED <<files, mret>>
    /\ StateFrame

\* log_post, lines 85-97
PostWrite(t) ==
    /\ mpc[t] = "p_write"
    /\ LET entry == Entry(mop[t].platform, mop[t].post_id)
           history == appended(mloc[t].history, entry)
       IN  /\ files' = write("posts", history)
           /\ mloc' = [mloc EXCEPT ![t].history = history]
    /\ mpc' = [mpc EXCEPT ![t] = "p_read_agent"]
    /\ UNCHANGED <<mop, mret, performed>>
    /\ StateFrame

\* log_post, line 100
PostReadAgent(t) ==
    /\ mpc[t] = "p_read_agent"
    /\ mloc' = [mloc EXCEPT ![t].state = read("agent")]
    /\ mpc' = [mpc EXCEPT ![t] = "p_write_agent"]
    /\ UNCHANGED <<files, mop, mret, performed>>
    /\ StateFrame

\* log_post, lines 101-104
PostWriteAgent(t) ==
    /\ mpc[t] = "p_write_agent"
    /\ files' = write("agent",
                      [mloc[t].state EXCEPT !.total_posts = @ + 1])
    /\ performed' = [performed EXCEPT
                        !.log_post = @ + 1,
                        !.logged = Append(@, Entry(mop[t].platform,
                                                   mop[t].post_id))]
    /\ Return(t)
    /\ mret' = mret
    /\ StateFrame

\* log_engagement, line 119
EngagementRead(t, platform) ==
    /\ Enter(t, "log_engagement", platform, <<>>, "e_write")
    /\ mloc' = [mloc EXCEPT ![t].history = read("engagement")]
    /\ performed' = [performed EXCEPT !.calls = @ + 1]
    /\ UNCHANGED <<files, mret>>
    /\ StateFrame

\* log_engagement, lines 120-130
EngagementWrite(t) ==
    /\ mpc[t] = "e_write"
    /\ LET entry == Entry(mop[t].platform, mop[t].post_id)
           history == appended(mloc[t].history, entry)
       IN  /\ files' = write("engagement", history)
           /\ mloc' = [mloc EXCEPT ![t].history = history]
    /\ mpc' = [mpc EXCEPT ![t] = "e_read_agent"]
    /\ UNCHANGED <<mop, mret, performed>>
    /\ StateFrame

\* log_engagement, line 132
EngagementReadAgent(t) ==
    /\ mpc[t] = "e_read_agent"
    /\ mloc' = [mloc EXCEPT ![t].state = read("agent")]
    /\ mpc' = [mpc EXCEPT ![t] = "e_write_agent"]
    /\ UNCHANGED <<files, mop, mret, performed>>
    /\ StateFrame

\* log_engagement, lines 133-134
EngagementWriteAgent(t) ==
    /\ mpc[t] = "e_write_agent"
    /\ files' = write("agent",
                      [mloc[t].state EXCEPT !.total_engagements = @ + 1])
    /\ performed' = [performed EXCEPT !.log_engagement = @ + 1]
    /\ Return(t)
    /\ mret' = mret
    /\ StateFrame

\* get_post_history(n), lines 107-108
GetPostHistory(t, n) ==
    /\ mpc[t] = "idle"
    /\ performed.calls < MaxStateCalls
    /\ performed' = [performed EXCEPT !.calls = @ + 1]
    /\ mret' = [mret EXCEPT ![t] = [n |-> n,
                                    history |-> slice_last(read("posts"), n)]]
    /\ UNCHANGED <<files, mop, mpc, mloc>>
    /\ StateFrame

\* the steps of thread t in the methods that rewrite a file
Mutation(t) ==
    \/ HeartbeatRead(t)
    \/ HeartbeatWrite(t)
    \/ UpdateRead(t, [status |-> "stopped"])
    \/ UpdateWrite(t)
    \/ \E platform \in Platforms : PostRead(t, platform)
    \/ PostWrite(t)
    \/ PostReadAgent(t)
    \/ PostWriteAgent(t)
    \/ EngagementRead(t, "moltbook")
    \/ EngagementWrite(t)
    \/ EngagementReadAgent(t)
    \/ EngagementWriteAgent(t)

\* sequential use: one thread
NextState ==
    \/ Mutation(1)
    \/ \E n \in Counts : GetPostHistory(1, n)

SpecState == InitState /\ [][NextState]_vars

\* several threads on one StateManager
NextStateThreads == \E t \in Callers : Mutation(t)

\* the threads start on no history or on one that the second post brings
\* over the cap
InitStateThreads == StateInit({0, HistoryCap - 1})

SpecStateThreads == InitStateThreads /\ [][NextStateThreads]_vars
(***************************************************************************)
(* Claims about StateManager                                               *)
(***************************************************************************)
\* no thread is inside a method
Quiet == \A t \in Callers : mpc[t] = "idle"

\* C21: whenever the calls made by the threads have all completed, no
\* update is lost: cycle_count has grown by the number of heartbeat calls,
\* total_posts by the number of log_post calls, total_engagements by the
\* number of log_engagement calls, and the entry of every log_post call is
\* in the post history, which has grown by one entry per call up to the cap
C21_NoLostUpdate ==
    Quiet =>
        /\ files.agent.cycle_count = performed.heartbeat
        /\ files.agent.total_posts = performed.log_post
        /\ files.agent.total_engagements = performed.log_engagement
        /\ \A i \in DOMAIN performed.logged :
              \E j \in DOMAIN files.posts :
                  files.posts[j] = performed.logged[i]
        /\ Len(files.posts) =
              Min(HistoryCap, Len(performed.earlier) + performed.log_post)

\* C21, a lost update: two heartbeat calls have completed and cycle_count
\* is 1
C21_LostHeartbeat ==
    /\ Quiet
    /\ performed.heartbeat = 2
    /\ files.agent.cycle_count = 1

\* C21, a lost post: two log_post calls have completed and the post history
\* holds the entry of one of them only
C21_LostPost ==
    /\ Quiet
    /\ performed.log_post = 2
    /\ performed.earlier = <<>>
    /\ Len(files.posts) = 1

\* the step is the return of a heartbeat call of thread t
HeartbeatReturns(t) == mpc[t] = "h_write" /\ mpc'[t] = "idle"

\* C22: in sequential use, the persisted cycle_count is the number of
\* heartbeat calls completed since the state was initialised, so it is at
\* least 1 once a heartbeat has completed; and the step in which a
\* heartbeat call returns has raised the persisted cycle_count by exactly 1
\* and left status at "running"
C22_HeartbeatCounts ==
    /\ [](/\ files.agent.cycle_count = performed.heartbeat
          /\ performed.heartbeat >= 1 => files.agent.cycle_count >= 1)
    /\ [][HeartbeatReturns(1) =>
             /\ files'.agent.cycle_count = files.agent.cycle_count + 1
             /\ files'.agent.status = "running"]_vars

\* C22 witness: three calls have completed, two of them heartbeat calls:
\* cycle_count is 2 and status is "running"
C22_Witness ==
    /\ Quiet
    /\ performed.calls = 3
    /\ performed.heartbeat = 2
    /\ files.agent.cycle_count = 2
    /\ files.agent.status = "running"

\* the posts logged so far, the earlier run's first, in the order of the
\* log_post calls
AllLogged == performed.earlier \o performed.logged

\* the step is a get_post_history call of thread t
HistoryRead(t) ==
    mpc[t] = "idle" /\ mpc'[t] = "idle" /\ performed'.calls = performed.calls + 1

\* C23: in sequential use, the post history never holds more than 500
\* entries and, between calls, it is the last 500 of the posts logged, in
\* the order they were logged (what is dropped is the oldest);
\* get_post_history(n), n >= 1, returns the last n of them in that order
\* (all of them when there are fewer), so that its last entry is the entry
\* of the latest log_post call, with that call's platform
C23_RecentPostsInOrder ==
    /\ [](/\ Len(files.posts) <= HistoryCap
          /\ Quiet => files.posts = slice_last(AllLogged, HistoryCap))
    /\ [][HistoryRead(1) =>
             LET got == mret'[1]
             IN  /\ got.n >= 1
                 /\ got.history = slice_last(AllLogged, got.n)
                 /\ AllLogged # <<>> =>
                        /\ got.history # <<>>
                        /\ Last(got.history) = Last(AllLogged)
                 /\ performed.logged # <<>> =>
                        Last(got.history).platform
                            = Last(performed.logged).platform]_vars

\* C23 witness: the history was full, two posts were logged (the two oldest
\* entries were dropped), and get_post_history(5) has returned three entries
\* of the earlier run followed by the two posts
C23_Witness ==
    /\ Quiet
    /\ Len(performed.earlier) = HistoryCap
    /\ performed.log_post = 2
    /\ Len(files.posts) = HistoryCap
    /\ files.posts[1] = Entry("earlier", 3)
    /\ mret[1].n = 5
    /\ Len(mret[1].history) = 5
    /\ mret[1].history[3] = Entry("earlier", HistoryCap)
    /\ SubSeq(mret[1].history, 4, 5) = performed.logged

(***************************************************************************)
(* The selection on its own: _get_available_keys applied once, by a        *)
(* generate call, to a pool of three records in the states the methods of  *)
(* ProviderState leave them in, under several preference lists.            *)
(***************************************************************************)
\* the states of a record of provider p: new; used with success at 5; one
\* and two generic failures, the last at 5; a success at 3 and a generic
\* failure at 7; rate limited at 5 (disable_until = 65)
SelectRecords(p) ==
    {NewState(p),
     mark_success(NewState(p), 5),
     mark_failure(NewState(p), 0, 5),
     mark_failure(mark_failure(NewState(p), 0, 3), 0, 5),
     mark_failure(mark_success(NewState(p), 3), 0, 7),
     mark_failure(NewState(p), 429, 5)}

\* the providers of the three records, in the order of self.keys
SelectPools ==
    {<<"groq", "groq", "gemini">>, <<"gemini", "nvidia", "groq">>,
     <<"nvidia", "nvidia", "nvidia">>}

\* the preference lists: the default; one that leaves providers out; one
\* that names no provider of the pool
PreferenceLists == {PROVIDERS, <<"gemini", "groq">>, <<"zhipuai">>}

\* the time of the selection: during the cooldown of the rate-limited record
\* and after it
SelectTimes == {10, 100}

InitSelect ==
    /\ \E pool \in SelectPools :
          /\ keys \in {ks \in [1..3 -> UNION {SelectRecords(pool[k]) : k \in 1..3}] :
                          \A k \in 1..3 : ks[k] \in SelectRecords(pool[k])}
          /\ last = [k \in DOMAIN pool |-> NoMark]
    /\ preferred_providers \in PreferenceLists
    /\ now \in SelectTimes
    /\ ticks = 0
    /\ pc = [c \in Callers |-> "idle"]
    /\ avail = [c \in Callers |-> <<>>]
    /\ idx = [c \in Callers |-> 0]
    /\ ret = [c \in Callers |-> None]
    /\ attempts = [c \in Callers |-> <<>>]
    /\ started = [c \in Callers |-> FALSE]
    /\ calls = 0
    /\ OutsideIdle

NextSelect == Begin(1)

SpecSelect == InitSelect /\ [][NextSelect]_vars

\* provider p is in the preference list
Listed(p) == \E n \in DOMAIN preferred_providers : preferred_providers[n] = p

\* the call of thread c has just computed its candidate list
Selected(c) == calls > 0 /\ pc[c] \in {"try", "done"} /\ attempts[c] = <<>>

C24_WitnessTies ==
    /\ Selected(1)
    /\ avail[1] = <<3, 2, 1>>
    /\ keys[1].failures = 1
    /\ keys[2] = mark_success(NewState("nvidia"), 5)
    /\ keys[3] = NewState("nvidia")

GenericFailure(k) ==
    /\ keys'[k].failures = keys[k].failures + 1
    /\ last'[k].op = "failure"
    /\ last'[k].code \notin {401, 403, 429}

\* C26: a generic failure that leaves the failure counter below 3 does not
\* put the credential into cooldown: it changes neither disabled nor
\* disable_until, and a credential that was available before it is
\* available after it and is returned by selection; so it is after one and
\* after two generic failures in a row on an available credential whose
\* counter was 0
C26_BelowThresholdNoCooldown ==
    [][\A k \in DOMAIN keys :
          (GenericFailure(k) /\ keys'[k].failures < 3) =>
              /\ keys'[k].disabled = keys[k].disabled
              /\ keys'[k].disable_until = keys[k].disable_until
              /\ available(keys[k], now) =>
                    /\ available(keys'[k], now)
                    /\ \E i \in DOMAIN Selection' : Selection'[i] = k]_vars

\* C26 witness: two generic failures in a row from a counter of 0 on a
\* credential that was never disabled: the counter is 2 and the credential
\* is the candidate selection returns
C26_Witness ==
    \E k \in DOMAIN keys :
        /\ last[k].op = "failure"
        /\ last[k].code = 500
        /\ last[k].streak = 2
        /\ keys[k].failures = 2
        /\ ~keys[k].disabled
        /\ keys[k].disable_until = 0
        /\ Selection = <<k>>

\* the record is reported available exactly when its disable_until is unset
\* or not later than the current time
AvailableIffElapsed(r, t) ==
    available(r, t) <=> (r.disable_until = 0 \/ r.disable_until <= t)

\* C27, state: every record is reported available exactly when its
\* disable_until is unset or not later than the current time, and a record
\* whose cooldown is over is reported available with its counter at 0
C27_Available ==
    \A k \in DOMAIN keys :
        /\ AvailableIffElapsed(keys[k], now)
        /\ (keys[k].disabled /\ keys[k].disable_until <= now) =>
               available_effect(keys[k], now).failures = 0

\* C27, transition: a step in which a record leaves the cooling-down state
\* (its disabled flag is cleared) happens when disable_until has been
\* reached and leaves its failure counter at 0
C27_Healed ==
    \A k \in DOMAIN keys :
        (keys[k].disabled /\ ~keys'[k].disabled) =>
            /\ keys[k].disable_until <= now
            /\ keys'[k].failures = 0
            /\ keys'[k].disable_until = keys[k].disable_until

\* C27: in every state a record is reported available exactly when its
\* disable_until is unset or not later than the current time, and every
\* transition of a record from cooling down to available leaves its
\* failure counter at 0, whatever caused the cooldown
C27_AvailableIffElapsedAndHealed == []C27_Available /\ [][C27_Healed]_vars

\* C27 witness: an auth rejection disabled the credential for 3600 s, the
\* time has passed and a read of .available has made it available, its
\* counter at 0
C27_Witness ==
    \E k \in DOMAIN keys :
        /\ last[k].op = "failure"
        /\ last[k].code \in {401, 403}
        /\ now >= last[k].at + 3600
        /\ keys[k].disable_until = last[k].at + 3600
        /\ ~keys[k].disabled
        /\ keys[k].failures = 0

\* C27 witness, rate limit: the same after a rate-limit cooldown
C27_WitnessRateLimit ==
    \E k \in DOMAIN keys :
        /\ last[k].op = "failure"
        /\ last[k].code = 429
        /\ keys[k].disable_until = last[k].at + last[k].dur
        /\ keys[k].disable_until <= now
        /\ ~keys[k].disabled
        /\ keys[k].failures = 0

\* C27, two threads in the methods of a record: when both methods have
\* ended the record is reported available exactly when its disable_until is
\* unset or not later than the current time
C27_AvailableAfterRace ==
    (\A t \in Callers : rpc[t] = "done") => AvailableIffElapsed(keys[1], now)

\* credential k is in the list s
Holds(s, k) == \E i \in DOMAIN s : s[i] = k

\* C28, state: a credential whose disable_until has been reached is
\* returned by selection; disable_until is never more than 3600 s after
\* the last use of the credential; and a call tries its candidates one
\* after the other without skipping any: the candidate it has reached is
\* attempted
C28_Selectable ==
    /\ LET S == Selection
       IN  \A k \in DOMAIN keys :
               /\ keys[k].disable_until <= now => Holds(S, k)
               /\ keys[k].disable_until <= keys[k].last_used + 3600
    /\ \A c \in Callers :
          /\ pc[c] = "try" => ENABLED StartCall(c)
          /\ pc[c] \in {"try", "call"} =>
                /\ idx[c] = Len(attempts[c]) + 1
                /\ \A i \in 1..Len(attempts[c]) : attempts[c][i][1] = avail[c][i]

\* C28, steps: the failure that sets disable_until sets it to a time that
\* is later than the current time by 3600 s at most, and the candidate
\* list a generate call computes holds every credential whose
\* disable_until has been reached
C28_Finite ==
    \A c \in Callers :
        /\ Ends(c) =>
              LET k == avail[c][idx[c]]
              IN  keys'[k].disable_until # keys[k].disable_until =>
                      /\ keys'[k].disable_until > now
                      /\ keys'[k].disable_until <= now + 3600
        /\ Enters(c) =>
              \A k \in DOMAIN keys :
                  keys[k].disable_until <= now => Holds(avail'[c], k)

\* C28: no credential is excluded forever.  Every cooldown is finite, at
\* most 3600 s from the failure that set it; from the moment the current
\* time reaches disable_until the credential is returned by selection, and
\* the generate call that reaches it in its candidate list attempts it
C28_NoPermanentExclusion == []C28_Selectable /\ [][C28_Finite]_vars

\* C28 witness: an auth rejection at time 1 disabled a credential until
\* 3601; at 3601 exactly a second generate call selected it, attempted it
\* and returned its text
C28_Witness ==
    \E c \in Callers : \E k \in DOMAIN keys :
        /\ pc[c] = "done"
        /\ calls = 2
        /\ now = 3601
        /\ keys[k].disable_until = now
        /\ ret[c] = TextOf(k)
        /\ ~keys[k].disabled

\* C29: the step in which an adapter call ends with text and mark_success
\* is applied leaves the attempted record available (not cooling down)
\* with last_used at the current time, also when another generate call has
\* put the record into cooldown while this attempt was in flight
C29_SuccessMakesAvailable ==
    [][\A c \in Callers : Ends(c) =>
          LET k == avail[c][idx[c]]
              o == Last(attempts'[c])[2]
          IN  o.kind = "text" =>
                  /\ available(keys'[k], now)
                  /\ keys'[k].last_used = now]_vars

\* C29, the failing case: a call has returned the text obtained with a
\* credential whose record is, after mark_success, still disabled and
\* cooling down, its failure counter at 0
C29_SuccessWhileCooling ==
    \E c \in Callers : \E k \in DOMAIN keys :
        /\ pc[c] = "done"
        /\ ret[c] = TextOf(k)
        /\ keys[k].last_used = now
        /\ keys[k].failures = 0
        /\ keys[k].disabled
        /\ now < keys[k].disable_until

\* the cooldown mark_failure(429) imposes on a record whose failure
\* counter is f when the outcome arrives
RateLimitCooldown(f) ==
    mark_failure([NewState("groq") EXCEPT !.failures = f], 429, 0).disable_until

\* C30: the cooldown a rate-limit outcome has imposed is the one of the
\* counter value it found, is 600 s at most, and is not shorter than the
\* one any smaller counter value would have got
C30_BackoffCappedAndMonotone ==
    \A k \in DOMAIN keys :
        (last[k].op = "failure" /\ last[k].code = 429) =>
            /\ last[k].dur = RateLimitCooldown(last[k].prev)
            /\ keys[k].disable_until = last[k].at + last[k].dur
            /\ last[k].dur <= 600
            /\ \A g \in 0..last[k].prev : RateLimitCooldown(g) <= last[k].dur

\* C30 witness: a rate-limit outcome on a counter of 5, past the point
\* where 30 * 2^failures exceeds the ceiling: the cooldown is 600 s, while
\* a counter of 2 gets less
C30_Witness ==
    \E k \in DOMAIN keys :
        /\ last[k].op = "failure"
        /\ last[k].code = 429
        /\ last[k].prev = 5
        /\ last[k].dur = 600
        /\ keys[k].disable_until = last[k].at + 600
        /\ RateLimitCooldown(2) < 600

(***************************************************************************)
(* Claims about LLMProvider.generate                                       *)
(***************************************************************************)
\* the string has a character that is not whitespace
NonBlank(x) == x.text # ""

\* the _call ended with a string that is not blank
Answered(o) == o.kind = "return" /\ NonBlank(o.value)

\* the keys of the configured providers, each with its provider
Configured ==
    UNION {{<<providers[q].name, providers[q].keys[n]>> :
                n \in 1..Len(providers[q].keys)} : q \in DOMAIN providers}

\* C31, result: a call that has returned gave back a string that is not
\* blank exactly when an attempt returned one, and then it is the string of
\* the first such attempt, which is the last attempt of the call; it gave
\* back the empty string exactly when every key of every configured
\* provider was attempted and each attempt raised or returned a blank
\* string.  A call in progress has had no such attempt
C31_FirstAnswerOrEmpty ==
    /\ ppc = "loop" => \A i \in DOMAIN tried : ~Answered(tried[i].outcome)
    /\ ppc = "done" =>
          /\ NonBlank(presult) <=> \E i \in DOMAIN tried : Answered(tried[i].outcome)
          /\ \A i \in DOMAIN tried :
                Answered(tried[i].outcome) =>
                    i = Len(tried) /\ presult = tried[i].outcome.value
          /\ presult = Str("", FALSE) <=>
                /\ \A i \in DOMAIN tried : ~Answered(tried[i].outcome)
                /\ Configured = {<<tried[i].name, tried[i].key>> : i \in DOMAIN tried}

\* C31, once: no key of a provider is attempted twice in a call
C31_EachKeyOnce ==
    \A i, j \in DOMAIN tried :
        (tried[i].name = tried[j].name /\ tried[i].key = tried[j].key) => i = j

\* C31: generate returns the first answer that is not blank, or the empty
\* string when every key of every configured provider failed, and attempts
\* each key at most once
C31_GenerateContract == C31_FirstAnswerOrEmpty /\ C31_EachKeyOnce

\* C31, the failing case: GROQ_API_KEYS names one secret twice, and a call
\* has attempted groq with that secret twice, the first attempt raising
C31_KeyTriedTwice ==
    /\ Len(tried) >= 2
    /\ tried[1].name = "groq" /\ tried[2].name = "groq"
    /\ tried[1].key = tried[2].key
    /\ tried[1].outcome = Raised

\* C31, the case of the claim: after an exception and a blank answer the
\* third attempt answered, and the call returned that string as it is
C31_WitnessAnswer ==
    /\ ppc = "done"
    /\ Len(tried) = 3
    /\ tried[1].outcome = Raised
    /\ tried[2].outcome = Returned(Str("", TRUE))
    /\ presult = Answer
    /\ Cardinality(Configured) > 3

(***************************************************************************)
(* AutonomousLoop (src/core/autonomous_loop.py): _do_engagement and the    *)
(* _handle_notifications call at its end.  The platform is the Moltbook    *)
(* connector; the engagement log is the file StateManager.log_engagement   *)
(* appends to and StateManager.get_engaged_ids reads.                      *)
(***************************************************************************)
MaxEngagements == 3        \* if engaged_count >= 3: break
NotificationLimit == 5     \* notifications[:5]

\* a post of the hot list: its id and whether its text has a keyword
Post(id, relevant) == [id |-> id, relevant |-> relevant]

\* a notification: its id and the post it is about ("" when it has none)
Notification(id, post_id) == [id |-> id, post_id |-> post_id]

\* the hot lists the platform may answer with: nothing, four relevant
\* posts, a list with an irrelevant post and one post listed twice
HotLists ==
    {<<>>,
     <<Post("p1", TRUE), Post("p2", TRUE), Post("p3", TRUE), Post("p4", TRUE)>>,
     <<Post("p1", TRUE), Post("p2", FALSE), Post("p1", TRUE)>>}

\* the notification lists the platform may answer with: nothing, one
\* notification, one without a post, and six of them
NotificationLists ==
    {<<>>,
     <<Notification("n1", "p1")>>,
     <<Notification("n2", ""), Notification("n1", "p2")>>,
     <<Notification("n1", "p1"), Notification("n2", "p1"),
       Notification("n3", "p2"), Notification("n4", "p2"),
       Notification("n5", "p3"), Notification("n6", "p3")>>}

\* the target ids the log may hold from earlier cycles
EarlierLogs == {<<>>, <<"p1">>, <<"n1", "p2">>}

\* what comment_on_post gives back: a dict, or None
CommentResults == {"dict", "None"}

\* StateManager.get_engaged_ids, lines 136-138
get_engaged_ids == {engagement_log[i] : i \in DOMAIN engagement_log} \ {""}

\* StateManager.log_engagement, lines 119-129: the history after the call
log_engagement(target_id) ==
    slice_last(Append(engagement_log, target_id), HistoryCap)

\* notifications[:5]
first(s, n) == SubSeq(s, 1, IF Len(s) < n THEN Len(s) ELSE n)

InitLoop ==
    /\ feed \in [moltbook : BOOLEAN, hot_posts : HotLists,
                 notifications : NotificationLists, earlier : EarlierLogs]
    /\ lpc = "idle"
    /\ li = 0
    /\ engaged_ids = {}
    /\ engaged_count = 0
    /\ engagement_log = feed.earlier
    /\ commented = <<>>
    /\ GatewayInit(<<>>)
    /\ LoaderIdle
    /\ ProviderIdle
    /\ RaceIdle
    /\ StateIdle
    /\ served = <<>>
    /\ HiveIdle

\* what a step of the cycle leaves alone
LoopFrame ==
    UNCHANGED <<feed, gatewayVars, loaderVars, providerVars, raceVars,
                stateVars, served, hiveVars>>

\* _do_engagement, lines 226-241: without a connector the task returns,
\* with one it reads the engaged ids and the hot posts once
DoEngagement ==
    /\ lpc = "idle"
    /\ IF ~feed.moltbook
       THEN /\ lpc' = "done"
            /\ UNCHANGED <<li, engaged_ids, engaged_count>>
       ELSE /\ lpc' = "posts"
            /\ engaged_ids' = get_engaged_ids
            /\ engaged_count' = 0
            /\ li' = 1
    /\ UNCHANGED <<engagement_log, commented>>
    /\ LoopFrame

\* _do_engagement, lines 242-275: one turn of the loop over hot_posts.  An
\* exception of the reply generator or of the log leaves through the except
\* of line 284, before the notifications
HotPost(result) ==
    /\ lpc = "posts"
    /\ li <= Len(feed.hot_posts)
    /\ LET post == feed.hot_posts[li]
           post_id == post.id
       IN  IF post_id \in engaged_ids \/ ~post.relevant
           THEN /\ li' = li + 1
                /\ UNCHANGED <<lpc, engaged_count, engagement_log, commented>>
           ELSE IF result = "raise"
           THEN /\ lpc' = "done"
                /\ UNCHANGED <<li, engaged_count, engagement_log, commented>>
           ELSE /\ commented' = Append(commented,
                                       [action |-> "comment",
                                        target_id |-> post_id,
                                        post_id |-> post_id,
                                        result |-> result])
                /\ engagement_log' = IF result = "dict"
                                     THEN log_engagement(post_id)
                                     ELSE engagement_log
                /\ engaged_count' = IF result = "dict"
                                    THEN engaged_count + 1
                                    ELSE engaged_count
                /\ IF engaged_count' >= MaxEngagements
                   THEN lpc' = "notifications" /\ li' = li
                   ELSE lpc' = lpc /\ li' = li + 1
    /\ UNCHANGED engaged_ids
    /\ LoopFrame

\* _do_engagement, lines 277-280: the loop is over
HotPostsDone ==
    /\ lpc = "posts"
    /\ li > Len(feed.hot_posts)
    /\ lpc' = "notifications"
    /\ UNCHANGED <<li, engaged_ids, engaged_count, engagement_log, commented>>
    /\ LoopFrame

\* _handle_notifications, lines 293-295: the notifications are fetched and
\* the engaged ids are read again, once
HandleNotifications ==
    /\ lpc = "notifications"
    /\ engaged_ids' = get_engaged_ids
    /\ li' = 1
    /\ lpc' = "replies"
    /\ UNCHANGED <<engaged_count, engagement_log, commented>>
    /\ LoopFrame

\* _handle_notifications, lines 297-317: one turn of the loop over the
\* first five notifications
Reply(result) ==
    /\ lpc = "replies"
    /\ li <= Len(first(feed.notifications, NotificationLimit))
    /\ LET notif == feed.notifications[li]
           notif_id == notif.id
           post_id == notif.post_id
       IN  IF notif_id \in engaged_ids \/ post_id = ""
           THEN /\ li' = li + 1
                /\ UNCHANGED <<lpc, engagement_log, commented>>
           ELSE IF result = "raise"
           THEN /\ lpc' = "done"
                /\ UNCHANGED <<li, engagement_log, commented>>
           ELSE /\ commented' = Append(commented,
                                       [action |-> "reply_notification",
                                        target_id |-> notif_id,
                                        post_id |-> post_id,
                                        result |-> result])
                /\ engagement_log' = IF result = "dict"
                                     THEN log_engagement(notif_id)
                                     ELSE engagement_log
                /\ li' = li + 1
                /\ lpc' = lpc
    /\ UNCHANGED <<engaged_ids, engaged_count>>
    /\ LoopFrame

\* _handle_notifications returns, and _do_engagement after it
RepliesDone ==
    /\ lpc = "replies"
    /\ li > Len(first(feed.notifications, NotificationLimit))
    /\ lpc' = "done"
    /\ UNCHANGED <<li, engaged_ids, engaged_count, engagement_log, commented>>
    /\ LoopFrame

NextLoop ==
    \/ DoEngagement
    \/ \E result \in CommentResults \cup {"raise"} : HotPost(result)
    \/ HotPostsDone
    \/ HandleNotifications
    \/ \E result \in CommentResults \cup {"raise"} : Reply(result)
    \/ RepliesDone

SpecLoop == InitLoop /\ [][NextLoop]_vars

\* the calls of the cycle that were logged as engagements
Logged == {i \in DOMAIN commented : commented[i].result = "dict"}

\* the ids engaged before the i-th comment of the cycle: those of earlier
\* cycles and those the cycle logged before it
EngagedBefore(i) ==
    ({feed.earlier[n] : n \in DOMAIN feed.earlier}
        \cup {commented[j].target_id : j \in {n \in Logged : n < i}}) \ {""}

\* C32, count: a cycle logs at most three engagements
C32_AtMostThreeLogged == Cardinality(Logged) <= MaxEngagements

\* C32, repeats: no comment of a cycle is for a post or a notification whose
\* id was engaged before it, in an earlier cycle or earlier in the cycle
C32_NeverEngagedBefore ==
    \A i \in DOMAIN commented : commented[i].target_id \notin EngagedBefore(i)

\* C32: one engagement cycle, notifications included, logs at most three
\* engagements and never comments for an id that is already engaged
C32_EngagementCycle == C32_AtMostThreeLogged /\ C32_NeverEngagedBefore

\* C32, the failing case: three posts were commented and logged, and then
\* the reply to a notification was logged as the fourth engagement
C32_FourthEngagement ==
    /\ lpc = "done"
    /\ engaged_count = MaxEngagements
    /\ Cardinality(Logged) = MaxEngagements + 1
    /\ commented[Len(commented)].action = "reply_notification"

\* C32, the second failing case: the hot list names a post twice, and the
\* cycle commented on it again after logging it
C32_CommentedTwice ==
    \E i, j \in Logged :
        /\ i < j
        /\ commented[i].action = "comment" /\ commented[j].action = "comment"
        /\ commented[i].target_id = commented[j].target_id

\* C32, what holds: the loop over the hot posts logs at most three
\* engagements, the loop over the notifications at most five, and no
\* comment is for an id that was in the log when its loop began
C32_LoopLimits ==
    /\ engaged_count <= MaxEngagements
    /\ engaged_count =
           Cardinality({i \in Logged : commented[i].action = "comment"})
    /\ Cardinality({i \in Logged : commented[i].action = "reply_notification"})
           <= NotificationLimit
    /\ \A i \in DOMAIN commented :
           commented[i].target_id \notin
               {feed.earlier[n] : n \in DOMAIN feed.earlier}

(***************************************************************************)
(* One generate call at a time, with adapter calls that always end         *)
(***************************************************************************)
\* every adapter call returns or times out (urlopen is given a timeout),
\* and the thread goes on from one statement to the next
SpecFair ==
    /\ Init
    /\ [][NextStatus]_vars
    /\ WF_vars(StartCall(1))
    /\ WF_vars(\E o \in Outcomes : Finish(1, o))

\* the adapter calls thread c has begun in its call of generate
Begun(c) == Len(attempts[c]) + (IF pc[c] = "call" THEN 1 ELSE 0)

\* C33, bound: the attempts of a call are for different credentials, the
\* one in progress was not attempted before, and the call has begun no more
\* adapter calls than its candidate list had entries
C33_Bounded ==
    \A c \in Callers :
        /\ Begun(c) <= Len(avail[c])
        /\ \A i, j \in DOMAIN attempts[c] :
               attempts[c][i][1] = attempts[c][j][1] => i = j
        /\ pc[c] = "call" =>
               \A i \in DOMAIN attempts[c] :
                   attempts[c][i][1] # avail[c][idx[c]]

\* C33, termination: a call that is in its loop returns
C33_Terminates == (pc[1] \in {"try", "call"}) ~> (pc[1] = "done")

\* C33: a generate call attempts each credential at most once, makes at
\* most as many adapter calls as it had candidates, and returns, given that
\* every adapter call ends
C33_AttemptsBoundedAndTerminates == []C33_Bounded /\ C33_Terminates

\* C33, the case of the claim: a call with two candidates made two adapter
\* calls, both failed, and it returned its failure
C33_Witness ==
    /\ pc[1] = "done"
    /\ Len(avail[1]) = 2
    /\ Len(attempts[1]) = 2
    /\ ret[1] = ExhaustedPool

(***************************************************************************)
(* Sequential generate calls on a healthy pool: every adapter call answers *)
(* with text, so each call is answered by its first candidate.  An adapter *)
(* call is a network request: the clock reading of mark_success is later   *)
(* than the reading the selection of the same call was made at.            *)
(***************************************************************************)
MaxServed == 6

\* the seconds an adapter call takes
ServeDeltas == {1, 30}

\* healthy pools: one to three credentials of the most preferred provider,
\* alone or with a credential of the least preferred one
RotatePools ==
    {<<"groq">>, <<"groq", "groq">>, <<"groq", "gemini", "groq">>,
     <<"groq", "groq", "groq">>, <<"gemini", "groq", "groq", "groq">>}

\* the records of a healthy pool: counter 0, not cooling, last used at
\* startup (0) or in an earlier success
InitRotate ==
    /\ \E pool \in RotatePools :
       \E used \in [DOMAIN pool -> {0, 1}] :
          /\ keys = [k \in DOMAIN pool |->
                        [NewState(pool[k]) EXCEPT !.last_used = used[k]]]
          /\ last = [k \in DOMAIN pool |-> NoMark]
    /\ preferred_providers = PROVIDERS
    /\ now = 1
    /\ ticks = 0
    /\ pc = [c \in Callers |-> "idle"]
    /\ avail = [c \in Callers |-> <<>>]
    /\ idx = [c \in Callers |-> 0]
    /\ ret = [c \in Callers |-> None]
    /\ attempts = [c \in Callers |-> <<>>]
    /\ started = [c \in Callers |-> FALSE]
    /\ calls = 0
    /\ OutsideIdle

\* one generate call from line 334 to its return at line 358: the list is
\* computed at time now, its first entry is called and answers with text
\* after d seconds, and mark_success stamps it
Serve(d) ==
    /\ Len(served) < MaxServed
    /\ LET a == get_available_keys(keys, preferred_providers, now)
       IN  /\ a # <<>>
           /\ keys' = record_attempt(refreshed(keys, now), a[1], Text, now + d)
           /\ served' = Append(served, a[1])
    /\ now' = now + d
    /\ UNCHANGED <<preferred_providers, ticks, callVars, last, loaderVars,
                   providerVars, raceVars, stateVars, loopVars, hiveVars>>

NextRotate == \E d \in ServeDeltas : Serve(d)

SpecRotate == InitRotate /\ [][NextRotate]_vars

\* the credentials of the most preferred provider that has one
MostPreferred ==
    LET rank(k) == pref_idx(preferred_providers, keys[k].provider)
    IN  {k \in DOMAIN keys : \A j \in DOMAIN keys : rank(k) <= rank(j)}

\* C34: with n healthy credentials of the most preferred provider and every
\* call answered, every call is answered by one of them and any n calls in a
\* row are answered by n different credentials
C34_Rotation ==
    LET n == Cardinality(MostPreferred)
    IN  /\ \A i \in DOMAIN served : served[i] \in MostPreferred
        /\ \A i \in DOMAIN served :
               i + n - 1 <= Len(served) =>
                   Cardinality({served[j] : j \in i..(i + n - 1)}) = n

\* C34, the case of the claim: three credentials of the preferred provider
\* and one of another, six calls, and the fourth call was answered by the
\* credential that answered the first
C34_Witness ==
    /\ Cardinality(MostPreferred) = 3
    /\ Len(keys) = 4
    /\ Len(served) = MaxServed
    /\ served[4] = served[1]

(***************************************************************************)
(* A sequential run: one generate call at a time, each call run from its   *)
(* selection to its return before the next one begins, with clock advances *)
(* and status reads between the calls.                                     *)
(***************************************************************************)
MaxSeqCalls == 4
MaxSeqTicks == 1

\* clock advances between the calls: to the end of a generic cooldown (and
\* past every backoff below the ceiling) and to the end of an auth cooldown
SeqDeltas == {GenericCooldown, AuthCooldown}

\* lines 340-371: the records after the loop has attempted the candidates
\* a[i], a[i+1], ... with the outcomes outs, up to the first text
RECURSIVE attempt_all(_, _, _, _, _)
attempt_all(ks, a, i, outs, t) ==
    IF i > Len(a) THEN ks
    ELSE LET ks1 == record_attempt(ks, a[i], outs[i], t)
         IN  IF outs[i].kind = "text" THEN ks1
             ELSE attempt_all(ks1, a, i + 1, outs, t)

\* one generate call, lines 334-371
SeqCall ==
    /\ calls < MaxSeqCalls
    /\ calls' = calls + 1
    /\ LET a == get_available_keys(keys, preferred_providers, now)
       IN  \E outs \in [DOMAIN a -> Outcomes] :
              \* the outcomes after the first text are not read
              /\ \A i, j \in DOMAIN a :
                     (i < j /\ outs[i] = Text) => outs[j] = Text
              /\ keys' = attempt_all(refreshed(keys, now), a, 1, outs, now)
    /\ UNCHANGED <<preferred_providers, now, ticks, pc, avail, idx, ret,
                   attempts, started, last, outsideGateway>>

\* the clock advances between two calls
SeqTick(d) ==
    /\ ticks < MaxSeqTicks
    /\ now' = now + d
    /\ ticks' = ticks + 1
    /\ UNCHANGED <<keys, preferred_providers, callVars, last, outsideGateway>>

NextSequential ==
    \/ SeqCall
    \/ \E d \in SeqDeltas : SeqTick(d)
    \/ Status

SpecSequential == Init /\ [][NextSequential]_vars

\* C35: in a sequential run the failure counter of every record is between
\* 0 and 3, every credential a selection returns has a counter of at most
\* 2, and so no backoff is computed from a counter that reaches the ceiling
\* of 600 seconds: every cooldown in force is the auth cooldown or shorter
\* than the ceiling
C35_SequentialCounters ==
    LET S == Selection
        R == refreshed(keys, now)
    IN  /\ \A k \in DOMAIN keys : keys[k].failures \in 0..FailureThreshold
        /\ \A i \in DOMAIN S : R[S[i]].failures <= FailureThreshold - 1
        /\ \A k \in DOMAIN keys :
               /\ keys[k].failures > 0 =>
                      backoff(keys[k].failures) < BackoffCeiling
               /\ keys[k].disabled =>
                      \/ keys[k].disable_until - keys[k].last_used = AuthCooldown
                      \/ keys[k].disable_until - keys[k].last_used < BackoffCeiling

\* C35, the case of the claim: a credential that had failed twice was
\* selected again and rate limited: its counter is 3 and its backoff 240 s
C35_Witness ==
    \E k \in DOMAIN keys :
        /\ keys[k].failures = FailureThreshold
        /\ keys[k].disabled
        /\ keys[k].disable_until - keys[k].last_used = backoff(FailureThreshold)
        /\ backoff(FailureThreshold) = 240

\* C35, the second case: a credential was selected after its cooldown, with
\* counter 0 again, and failed: the counter is 1, not 4
C35_WitnessHealed ==
    \E k \in DOMAIN keys :
        /\ calls = MaxSeqCalls
        /\ keys[k].failures = 1
        /\ keys[k].disable_until > 0
        /\ keys[k].last_used >= keys[k].disable_until

(***************************************************************************)
(* Claims about the health snapshot                                        *)
(***************************************************************************)
\* lines 376-385: the dict status returns at time t, one entry per provider
\* that has a record in self.keys
status(ks, t) ==
    [p \in {ks[k].provider : k \in DOMAIN ks} |-> status_counts(ks, t, p)]

\* the records of provider p
RecordsOf(ks, p) == {k \in DOMAIN ks : ks[k].provider = p}

\* C36, snapshot: the snapshot has an entry for exactly the providers that
\* have a record, and in each entry total is the number of records of the
\* provider and the sum of available and disabled
C36_Snapshot ==
    LET s == status(keys, now)
    IN  /\ DOMAIN s = {p \in Range(PROVIDERS) : RecordsOf(keys, p) # {}}
        /\ \A p \in DOMAIN s :
               /\ s[p].total = s[p].available + s[p].disabled
               /\ s[p].total = Cardinality(RecordsOf(keys, p))
               /\ s[p].total > 0

\* C36, lifetime: no step adds or removes a record or changes its provider
C36_RecordsKept ==
    /\ DOMAIN keys' = DOMAIN keys
    /\ \A k \in DOMAIN keys : keys'[k].provider = keys[k].provider

\* C36: every health snapshot has, for each provider with a loaded
\* credential and for no other, total = available + disabled, and total is
\* the number of records loaded for the provider, which never changes
C36_SnapshotTotals == []C36_Snapshot /\ [][C36_RecordsKept]_vars

\* C36, the case of the claim: a pool with one gemini and one groq record,
\* the groq record cooling after a failure: the snapshot has two entries,
\* groq with total 1, available 0, disabled 1, and none for other providers
C36_Witness ==
    LET s == status(keys, now)
    IN  /\ DOMAIN s = {"gemini", "groq"}
        /\ s["groq"] = [total |-> 1, available |-> 0, disabled |-> 1]
        /\ s["gemini"].available = 1
        /\ calls > 0

(***************************************************************************)
(* HiveMind (src/hivemind.py): agents share one gist.  Every method reads  *)
(* the state with _read_state (from the instance's cache when it is        *)
(* younger than 30 seconds, else with a GET), changes it and sends it      *)
(* whole with _write_state (a PATCH).  The GET and the PATCH of a method   *)
(* are separate steps: other agents run between them.                      *)
(***************************************************************************)
MessageCap == 200          \* publish: [...][-200:]
KnowledgeCap == 500        \* add_knowledge: [-500:]
CacheSeconds == 30         \* _read_state: (time.time() - self._cache_time) < 30
TtlSeconds == 259200       \* publish: ttl_hours = 72, times 3600
ReadLimit == 50            \* read: limit = 50
MaxHiveOps == 3
MaxHiveTicks == 1

Agents == {1, 2}
HiveOps == {"publish", "read", "add_knowledge"}

\* clock advances: within the life of a cache, to its end, and a TTL
HiveDeltas == {10, CacheSeconds, TtlSeconds}

\* the messages the gist may hold at the start, of an agent 0, sent at
\* time 1: none, or one less than the cap
OlderCounts == {0, MessageCap - 1}

\* the message publish builds for sender a at time t (lines 184-192)
Message(a, t) == [id |-> <<a, t>>, sender |-> a, timestamp |-> t, read_by |-> {}]

Older(n) == [i \in 1..n |-> [Message(0, 1) EXCEPT !.id = <<0, i>>]]

\* the state _read_state returns when it has no answer (lines 140, 149)
EmptyState == [messages |-> <<>>, agents |-> {}, knowledge_base |-> 0]

NoCache == <<>>

\* _read_state, lines 136-137: the cache is used
cached(a, t) == hcache[a].state # NoCache /\ t - hcache[a].time < CacheSeconds

\* publish, lines 203-208: the messages that are not expired, the last 200
cleanup(messages, t) ==
    LET fresh(m) == t - m.timestamp < TtlSeconds
    IN  slice_last(SelectSeq(messages, fresh), MessageCap)

\* publish, lines 182-208: the state after the message was appended, the
\* heartbeat of the sender set and the messages cleaned up
publish_state(state, a, t) ==
    [state EXCEPT !.messages = cleanup(Append(@, Message(a, t)), t),
                  !.agents = @ \cup {a}]

\* read with reader a and no filter, lines 237-247: the last `limit`
\* messages are marked as read by a
read_state(state, a) ==
    LET n == Len(state.messages)
    IN  [state EXCEPT !.messages =
            [i \in 1..n |->
                IF i > n - ReadLimit
                THEN [state.messages[i] EXCEPT !.read_by = @ \cup {a}]
                ELSE state.messages[i]]]

\* add_knowledge, lines 258-272: one more entry, the last 500 kept
add_knowledge_state(state) ==
    [state EXCEPT !.knowledge_base =
        IF @ + 1 > KnowledgeCap THEN KnowledgeCap ELSE @ + 1]

\* the state a method sends, from the state it read
changed(op, state, a, t) ==
    CASE op = "publish" -> publish_state(state, a, t)
      [] op = "read" -> read_state(state, a)
      [] op = "add_knowledge" -> add_knowledge_state(state)

InitHive ==
    /\ \E n \in OlderCounts :
          gist = [EmptyState EXCEPT !.messages = Older(n), !.agents = {0}]
    /\ hcache = [a \in Agents |-> [state |-> NoCache, time |-> 0]]
    /\ hpc = [a \in Agents |-> "idle"]
    /\ hloc = [a \in Agents |-> <<>>]
    /\ published = <<>>
    /\ GatewayInit(<<>>)
    /\ LoaderIdle
    /\ ProviderIdle
    /\ RaceIdle
    /\ StateIdle
    /\ LoopIdle
    /\ served = <<>>

\* what a step of a HiveMind method leaves alone
HiveFrame ==
    UNCHANGED <<keys, preferred_providers, pc, avail, idx, ret, attempts,
                started, last, loaderVars, providerVars, raceVars, stateVars,
                loopVars, served>>

\* the clock advances
HiveTick(d) ==
    /\ ticks < MaxHiveTicks
    /\ now' = now + d
    /\ ticks' = ticks + 1
    /\ UNCHANGED <<hiveVars, calls>>
    /\ HiveFrame

\* agent a calls the method op, which begins with _read_state (lines
\* 133-149): the cached state when the cache is young, else the answer of
\* the GET, which becomes the cache, or an empty state when the GET failed
HiveRead(a, op, ok) ==
    /\ hpc[a] = "idle"
    /\ calls < MaxHiveOps
    /\ calls' = calls + 1
    /\ hpc' = [hpc EXCEPT ![a] = "write"]
    /\ IF cached(a, now)
       THEN /\ hloc' = [hloc EXCEPT ![a] = [op |-> op, state |-> hcache[a].state,
                                            is_cache |-> TRUE]]
            /\ hcache' = hcache
       ELSE IF ok
       THEN /\ hloc' = [hloc EXCEPT ![a] = [op |-> op, state |-> gist,
                                            is_cache |-> TRUE]]
            /\ hcache' = [hcache EXCEPT ![a] = [state |-> gist, time |-> now]]
       ELSE /\ hloc' = [hloc EXCEPT ![a] = [op |-> op, state |-> EmptyState,
                                            is_cache |-> FALSE]]
            /\ hcache' = hcache
    /\ UNCHANGED <<gist, published, now, ticks>>
    /\ HiveFrame

\* the method changes the state it holds, which is the cached object when
\* it came from the cache or the GET, and sends it with _write_state (lines
\* 151-168): when the PATCH succeeds the gist holds that state and the
\* cache is renewed; publish returns the answer of _write_state
HiveWrite(a, ok) ==
    /\ hpc[a] = "write"
    /\ LET state == changed(hloc[a].op, hloc[a].state, a, now)
       IN  /\ gist' = IF ok THEN state ELSE gist
           /\ hcache' = [hcache EXCEPT ![a] =
                            IF ok THEN [state |-> state, time |-> now]
                            ELSE IF hloc[a].is_cache
                            THEN [hcache[a] EXCEPT !.state = state]
                            ELSE hcache[a]]
           /\ published' = IF ok /\ hloc[a].op = "publish"
                           THEN Append(published, Message(a, now))
                           ELSE published
    /\ hpc' = [hpc EXCEPT ![a] = "idle"]
    /\ hloc' = [hloc EXCEPT ![a] = <<>>]
    /\ UNCHANGED <<now, ticks, calls>>
    /\ HiveFrame

NextHive ==
    \/ \E d \in HiveDeltas : HiveTick(d)
    \/ \E a \in Agents, op \in HiveOps, ok \in BOOLEAN : HiveRead(a, op, ok)
    \/ \E a \in Agents, ok \in BOOLEAN : HiveWrite(a, ok)

SpecHive == InitHive /\ [][NextHive]_vars

\* the message with the id of m is in the shared store
Stored(m) == \E i \in DOMAIN gist.messages : gist.messages[i].id = m.id

\* the messages published after the n-th one
Newer(n) == Len(published) - n

\* C37: a message whose publish returned True is in the shared store as
\* long as its TTL has not expired and fewer than 200 newer messages were
\* published, whatever other agents publish, read or add
C37_PublishedStays ==
    \A n \in DOMAIN published :
        (now - published[n].timestamp < TtlSeconds /\ Newer(n) < MessageCap)
            => Stored(published[n])

\* C37, the failing case: no method is running, agent 1 published a message
\* and agent 2 published after it, within the TTL of the first, and the
\* store holds the second message without the first
C37_Overwritten ==
    /\ \A a \in Agents : hpc[a] = "idle"
    /\ Len(published) = 2
    /\ published[1].sender = 1 /\ published[2].sender = 2
    /\ now - published[1].timestamp < TtlSeconds
    /\ Stored(published[2])
    /\ ~Stored(published[1])

\* C37, what holds: the message is in the store when its publish returns
C37_StoredAtReturn ==
    [][Len(published') = Len(published) + 1 =>
          \E i \in DOMAIN gist'.messages :
              gist'.messages[i].id = published'[Len(published')].id]_vars

=============================================================================
